---- MODULE Spec2Model ----
(***************************************************************************)
(* A model of pywhois/parser.py: the date caster cast_date, the record     *)
(* class WhoisEntry with its lazy attribute hook, the suffix dispatcher     *)
(* WhoisEntry.load and the per-suffix subclasses with their regex tables    *)
(* and "not found" checks.                                                  *)
(*                                                                          *)
(* Python strings are TLA+ strings; a character is a string of length 1.    *)
(* re.findall and time.strptime are modelled by a matcher over flat         *)
(* patterns (sequences of items) that keeps the candidate matches in the    *)
(* order in which Python's re module tries them.                            *)
(***************************************************************************)
EXTENDS Integers, Sequences, FiniteSets, TLC

VARIABLES
    entry,      \* the object WhoisEntry.load returned, or NoEntry
    result,     \* outcome of the last operation on the record or dispatcher
    nfindall,   \* attr -> number of times re.findall ran for it on entry
    first,      \* attr -> the list the first successful access returned
    date_str,   \* the argument of cast_date
    tzname,     \* time.tzname of the process, <<standard, daylight>>
    date_result, \* what cast_date returned
    calls,      \* thread -> the access to entry it is in, and where in it
    peer        \* a second object WhoisEntry.load returned, or NoEntry

vars == <<entry, result, nfindall, first, date_str, tzname, date_result, calls, peer>>

----------------------------------------------------------------------------
(* Characters and Python's str helpers                                     *)

LowerChars == {"a","b","c","d","e","f","g","h","i","j","k","l","m",
               "n","o","p","q","r","s","t","u","v","w","x","y","z"}
UpperChars == {"A","B","C","D","E","F","G","H","I","J","K","L","M",
               "N","O","P","Q","R","S","T","U","V","W","X","Y","Z"}
DigitChars == {"0","1","2","3","4","5","6","7","8","9"}

\* str.strip() and the regex class \s: space, \t, \n, \r, \f (the vertical
\* tab \v also belongs to both, but has no TLA+ string escape).
SpaceChars == {" ", "\t", "\n", "\r", "\f"}

\* the regex class \w without re.UNICODE / re.LOCALE
WordChars == LowerChars \cup UpperChars \cup DigitChars \cup {"_"}

\* the characters of the range .-_ (0x2E to 0x5F) in the class [\w\d.-_]
RangeDotToUnderscore ==
    DigitChars \cup UpperChars \cup
    {".", "/", ":", ";", "<", "=", ">", "?", "@", "[", "\\", "]", "^", "_"}

CharAt(s, i) == SubSeq(s, i, i)

\* s[i:] of Python for a 1-based i
From(s, i) == SubSeq(s, i, Len(s))

\* the last n characters of s without its final dot: the exact comparison of
\* C21 must reject it
LastCharsBeforeDot(s, n) ==
    LET t == IF Len(s) > 0 /\ SubSeq(s, Len(s), Len(s)) = "."
             THEN SubSeq(s, 1, Len(s) - 1) ELSE s
    IN  IF Len(t) <= n THEN t ELSE SubSeq(t, Len(t) - n + 1, Len(t))

\* s[-n:] of Python: the last n characters, or all of s when it is shorter
LastChars(s, n) == IF Len(s) <= n THEN s ELSE SubSeq(s, Len(s) - n + 1, Len(s))

\* sub looked for at the start of s only: the rules of C14 must reject it
ContainsAtStart(sub, s) ==
    Len(sub) <= Len(s) /\ SubSeq(s, 1, Len(sub)) = sub

\* sub in s
Contains(sub, s) ==
    \E i \in 1..(Len(s) - Len(sub) + 1) : SubSeq(s, i, i + Len(sub) - 1) = sub

RECURSIVE LStrip(_)
LStrip(s) ==
    IF Len(s) > 0 /\ CharAt(s, 1) \in SpaceChars THEN LStrip(From(s, 2)) ELSE s

RECURSIVE RStrip(_)
RStrip(s) ==
    IF Len(s) > 0 /\ CharAt(s, Len(s)) \in SpaceChars
    THEN RStrip(SubSeq(s, 1, Len(s) - 1))
    ELSE s

\* a strip() that removes nothing: the comparison of C6 must reject it
StripNothing(s) == s

\* str.strip()
Strip(s) == RStrip(LStrip(s))

LowerOf(c) ==
    CASE c = "A" -> "a" [] c = "B" -> "b" [] c = "C" -> "c" [] c = "D" -> "d"
      [] c = "E" -> "e" [] c = "F" -> "f" [] c = "G" -> "g" [] c = "H" -> "h"
      [] c = "I" -> "i" [] c = "J" -> "j" [] c = "K" -> "k" [] c = "L" -> "l"
      [] c = "M" -> "m" [] c = "N" -> "n" [] c = "O" -> "o" [] c = "P" -> "p"
      [] c = "Q" -> "q" [] c = "R" -> "r" [] c = "S" -> "s" [] c = "T" -> "t"
      [] c = "U" -> "u" [] c = "V" -> "v" [] c = "W" -> "w" [] c = "X" -> "x"
      [] c = "Y" -> "y" [] c = "Z" -> "z" [] OTHER -> c

\* str.lower()
RECURSIVE Lower(_)
Lower(s) ==
    IF Len(s) <= 1 THEN LowerOf(s)
    ELSE Lower(SubSeq(s, 1, Len(s) \div 2)) \o Lower(From(s, Len(s) \div 2 + 1))

RECURSIVE DigitsToInt(_)
\* int(s) for a string of decimal digits
DigitsToInt(s) ==
    IF s = "" THEN 0
    ELSE LET c == CharAt(s, Len(s))
             v == CASE c = "0" -> 0 [] c = "1" -> 1 [] c = "2" -> 2 [] c = "3" -> 3
                    [] c = "4" -> 4 [] c = "5" -> 5 [] c = "6" -> 6 [] c = "7" -> 7
                    [] c = "8" -> 8 [] c = "9" -> 9
         IN  10 * DigitsToInt(SubSeq(s, 1, Len(s) - 1)) + v

----------------------------------------------------------------------------
(* Regular expressions                                                     *)
(*                                                                          *)
(* A pattern is a sequence of items:                                        *)
(*   Lit(s)          the literal text s                                     *)
(*   Rep(cls,lo,hi)  lo..hi characters of class cls, greedy                 *)
(*   Many(cls,lo)    lo or more characters of class cls, greedy             *)
(*   Open(g)/Close(g) the parentheses of capturing group g                  *)
(*   Alt(alts)       (?:a1|a2|...), each alternative a pattern of its own   *)
(*   Cap(g,alts)     (?P<g>a1|a2|...), the capturing group g of alternatives *)
(* A class is a set of characters and class names: "ANY" is the dot (every  *)
(* character but the newline), "\\s", "\\w" and "\\d" are the escapes.      *)

Lit(s) == [k |-> "lit", s |-> s]
Rep(cls, lo, hi) == [k |-> "rep", cls |-> cls, lo |-> lo, bounded |-> TRUE, hi |-> hi]
Many(cls, lo) == [k |-> "rep", cls |-> cls, lo |-> lo, bounded |-> FALSE, hi |-> lo]
Open(g) == [k |-> "open", g |-> g]
Close(g) == [k |-> "close", g |-> g]
Alt(alts) == [k |-> "alt", alts |-> alts]
Cap(g, alts) == [k |-> "cap", g |-> g, alts |-> alts]

InClass(c, cls) ==
    \/ c \in cls
    \/ "ANY" \in cls /\ c # "\n"
    \/ "\\s" \in cls /\ c \in SpaceChars
    \/ "\\w" \in cls /\ c \in WordChars
    \/ "\\d" \in cls /\ c \in DigitChars
    \/ ".-_" \in cls /\ c \in RangeDotToUnderscore

NoMatch == [ok |-> FALSE, e |-> 0, caps |-> <<>>]

\* the number of characters of class cls at text[pos..], at most limit
Run(text, pos, cls, limit) ==
    LET most == IF Len(text) - pos + 1 < limit THEN Len(text) - pos + 1 ELSE limit
    IN  CHOOSE n \in 0..most :
          /\ n = most \/ ~InClass(CharAt(text, pos + n), cls)
          /\ \A i \in pos..(pos + n - 1) : InClass(CharAt(text, i), cls)

\* A thread is one way the matcher has come through a prefix of the pattern:
\* the index e of the next character and the captures so far, a sequence of
\* <<group, start, end>>. A list of threads holds them in the order in which a
\* backtracking matcher would explore them.

\* lists is a sequence of thread lists, each with its threads at different
\* indexes. Its concatenation, where of the threads that stand at one index
\* only the first is kept: a later one has the same rest of the pattern
\* before it and comes after it in the order.
Merge(lists) ==
    IF Len(lists) = 1 THEN lists[1]
    ELSE
      LET ends == [i \in 1..Len(lists) |-> {lists[i][j].e : j \in 1..Len(lists[i])}]
          keys == UNION {{<<i, j>> : j \in 1..Len(lists[i])} : i \in 1..Len(lists)}
          firsts == {k \in keys : \A i \in 1..(k[1] - 1) : lists[k[1]][k[2]].e \notin ends[i]}
          Before(k1, k2) == k1[1] < k2[1] \/ (k1[1] = k2[1] /\ k1[2] < k2[2])
          place == [k \in firsts |-> Cardinality({k2 \in firsts : Before(k2, k)}) + 1]
      IN  [r \in 1..Cardinality(firsts) |->
             LET k == CHOOSE k \in firsts : place[k] = r
             IN  lists[k[1]][k[2]]]

RECURSIVE Threads(_, _, _, _)
RECURSIVE Advance(_, _, _)

\* the threads after the items from number i on, for the threads ths before
Threads(items, i, text, ths) ==
    IF i > Len(items) \/ ths = <<>> THEN ths
    ELSE Threads(items, i + 1, text,
                 Merge([t \in 1..Len(ths) |-> Advance(items[i], text, ths[t])]))

\* the threads one item makes of the thread th, the preferred one first: a
\* greedy repetition prefers the longest run, an alternation its first branch
Advance(it, text, th) ==
    CASE it.k = "lit" ->
           IF /\ th.e + Len(it.s) - 1 <= Len(text)
              /\ SubSeq(text, th.e, th.e + Len(it.s) - 1) = it.s
           THEN <<[th EXCEPT !.e = th.e + Len(it.s)]>>
           ELSE <<>>
      [] it.k = "rep" ->
           LET n == Run(text, th.e, it.cls, IF it.bounded THEN it.hi ELSE Len(text))
           IN  [c \in 1..(n - it.lo + 1) |-> [th EXCEPT !.e = th.e + n - c + 1]]
      [] it.k = "open" ->
           <<[th EXCEPT !.caps = Append(th.caps, <<it.g, th.e, 0>>)]>>
      [] it.k = "close" ->
           <<[th EXCEPT !.caps = [i \in 1..Len(th.caps) |->
                                    IF th.caps[i][1] = it.g /\ th.caps[i][3] = 0
                                    THEN <<it.g, th.caps[i][2], th.e>>
                                    ELSE th.caps[i]]]>>
      [] it.k = "alt" ->
           Merge([a \in 1..Len(it.alts) |-> Threads(it.alts[a], 1, text, <<th>>)])
      [] it.k = "cap" ->
           LET ends == Merge([a \in 1..Len(it.alts) |->
                                Threads(it.alts[a], 1, text, <<th>>)])
           IN  [j \in 1..Len(ends) |->
                  [ends[j] EXCEPT !.caps = Append(th.caps, <<it.g, th.e, ends[j].e>>)]]

\* The first way, in the order a backtracking matcher explores them, to match
\* the pattern items at text[pos..]: ok, the index e after the match, and the
\* captures.
MatchAt(items, text, pos, caps) ==
    LET ths == Threads(items, 1, text, <<[e |-> pos, caps |-> caps]>>)
    IN  IF ths = <<>> THEN NoMatch
        ELSE [ok |-> TRUE, e |-> ths[1].e, caps |-> ths[1].caps]

\* the text group g captured in match m ("" when it took no part)
Group(m, text, g) ==
    LET hits == {i \in 1..Len(m.caps) : m.caps[i][1] = g}
    IN  IF hits = {} THEN ""
        ELSE LET i == CHOOSE j \in hits : TRUE
             IN  SubSeq(text, m.caps[i][2], m.caps[i][3] - 1)

HasGroup(items) == \E i \in 1..Len(items) : items[i].k \in {"open", "cap"}

\* whether a match of the item can start at text[pos]: a test of the first
\* character only, which spares the matcher most positions of a text
CanStart(it, text, pos) ==
    CASE it.k = "lit" ->
           it.s = "" \/ (pos <= Len(text) /\ CharAt(text, pos) = CharAt(it.s, 1))
      [] it.k = "rep" -> it.lo = 0 \/ (pos <= Len(text) /\ InClass(CharAt(text, pos), it.cls))
      [] OTHER -> TRUE

\* the positions of text where the pattern matches
MatchStarts(items, text) ==
    {s \in 1..(Len(text) + 1) :
       /\ items = <<>> \/ CanStart(items[1], text, s)
       /\ MatchAt(items, text, s, <<>>).ok}

\* re.findall(pattern, text) from position pos on: the matches found scanning
\* left to right, each search resuming where the previous match ended (one
\* character later after an empty match); an element is group 1 when the
\* pattern has a group, else the whole match. starts is MatchStarts.
RECURSIVE FindAllFrom(_, _, _, _)
FindAllFrom(items, text, starts, pos) ==
    LET ahead == {s \in starts : s >= pos}
    IN  IF ahead = {} THEN <<>>
        ELSE LET s == CHOOSE x \in ahead : \A y \in ahead : x <= y
                 m == MatchAt(items, text, s, <<>>)
             IN  <<IF HasGroup(items) THEN Group(m, text, "1")
                   ELSE SubSeq(text, s, m.e - 1)>>
                 \o FindAllFrom(items, text, starts, IF m.e = s THEN s + 1 ELSE m.e)

\* re.search in the place of re.findall, the first match alone: the
\* extraction of C9 must reject it
FindFirst(items, text) ==
    LET starts == MatchStarts(items, text)
    IN  IF starts = {} THEN <<>>
        ELSE LET s == CHOOSE x \in starts : \A y \in starts : x <= y
                 m == MatchAt(items, text, s, <<>>)
             IN  <<IF HasGroup(items) THEN Group(m, text, "1")
                   ELSE SubSeq(text, s, m.e - 1)>>

\* re.findall(pattern, text)
FindAll(items, text) == FindAllFrom(items, text, MatchStarts(items, text), 1)

----------------------------------------------------------------------------
(* time.strptime, as cast_date calls it (C locale)                         *)

\* locale_time.a_month[1..12] and locale_time.a_weekday[0..6], lower-cased
a_month == <<"jan", "feb", "mar", "apr", "may", "jun",
             "jul", "aug", "sep", "oct", "nov", "dec">>
a_weekday == <<"mon", "tue", "wed", "thu", "fri", "sat", "sun">>

IndexOf(seq, x) == CHOOSE i \in 1..Len(seq) : seq[i] = x

OneOf(cls) == Rep(cls, 1, 1)
Digit == OneOf({"\\d"})
Literals(seq) == [i \in 1..Len(seq) |-> <<Lit(seq[i])>>]

\* LocaleTime.timezone: the names without and with daylight saving
NoSaving(tz) == {"utc", "gmt", Lower(tz.std)}
HasSaving(tz) == IF tz.daylight THEN {Lower(tz.dst)} ELSE {}

\* sorted(names, key=len, reverse=True); names of one length are distinct
\* literals, so their order among themselves decides no match
RECURSIVE LongestFirst(_)
LongestFirst(names) ==
    IF names = {} THEN <<>>
    ELSE LET n == CHOOSE x \in names : \A y \in names : Len(y) <= Len(x)
         IN  <<n>> \o LongestFirst(names \ {n})

\* TimeRE.__getitem__: the regular expression of one directive. re.IGNORECASE
\* is modelled by matching lower-case patterns against the lower-cased data.
Directive(d, tz) ==
    CASE d = "d" ->
           Cap("d", << <<Lit("3"), OneOf({"0", "1"})>>,
                       <<OneOf({"1", "2"}), Digit>>,
                       <<Lit("0"), OneOf(DigitChars \ {"0"})>>,
                       <<OneOf(DigitChars \ {"0"})>>,
                       <<Lit(" "), OneOf(DigitChars \ {"0"})>> >>)
      [] d = "m" ->
           Cap("m", << <<Lit("1"), OneOf({"0", "1", "2"})>>,
                       <<Lit("0"), OneOf(DigitChars \ {"0"})>>,
                       <<OneOf(DigitChars \ {"0"})>> >>)
      [] d = "Y" -> Cap("Y", << <<Digit, Digit, Digit, Digit>> >>)
      [] d = "H" ->
           Cap("H", << <<Lit("2"), OneOf({"0", "1", "2", "3"})>>,
                       <<OneOf({"0", "1"}), Digit>>,
                       <<Digit>> >>)
      [] d = "M" ->
           Cap("M", << <<OneOf({"0", "1", "2", "3", "4", "5"}), Digit>>,
                       <<Digit>> >>)
      [] d = "S" ->
           Cap("S", << <<Lit("6"), OneOf({"0", "1"})>>,
                       <<OneOf({"0", "1", "2", "3", "4", "5"}), Digit>>,
                       <<Digit>> >>)
      [] d = "b" -> Cap("b", Literals(a_month))
      [] d = "a" -> Cap("a", Literals(a_weekday))
      [] d = "Z" -> Cap("Z", Literals(LongestFirst(NoSaving(tz) \cup HasSaving(tz))))

\* TimeRE.pattern(format): a directive becomes its expression, a run of
\* whitespace becomes \s+, every other character stands for itself. A piece
\* of the format starts at every character that neither follows a % nor
\* continues a run of whitespace.
FormatPattern(format, tz) ==
    LET starts == {i \in 1..Len(format) :
                     \/ i = 1
                     \/ /\ CharAt(format, i - 1) # "%"
                        /\ ~(CharAt(format, i) \in SpaceChars
                             /\ CharAt(format, i - 1) \in SpaceChars)}
    IN  [k \in 1..Cardinality(starts) |->
           LET i == CHOOSE x \in starts : Cardinality({y \in starts : y < x}) = k - 1
               c == CharAt(format, i)
           IN  IF c = "%" THEN Directive(CharAt(format, i + 1), tz)
               ELSE IF c \in SpaceChars THEN Many({"\\s"}, 1)
               ELSE Lit(LowerOf(c))]

HasCap(m, g) == \E i \in 1..Len(m.caps) : m.caps[i][1] = g

IsLeap(year) == year % 4 = 0 /\ (year % 100 # 0 \/ year % 400 = 0)

DaysInMonth(year, month) ==
    IF month = 2 THEN (IF IsLeap(year) THEN 29 ELSE 28)
    ELSE IF month \in {4, 6, 9, 11} THEN 30 ELSE 31

\* datetime._days_before_month(year, month)
DaysBeforeMonth(year, month) ==
    <<0, 31, 59, 90, 120, 151, 181, 212, 243, 273, 304, 334>>[month]
    + (IF month > 2 /\ IsLeap(year) THEN 1 ELSE 0)

\* datetime.date(year, month, day).toordinal()
ToOrdinal(year, month, day) ==
    LET y == year - 1
    IN  y * 365 + (y \div 4) - (y \div 100) + (y \div 400)
        + DaysBeforeMonth(year, month) + day

\* datetime.date(year, month, day) raises ValueError unless this holds
ValidDate(year, month, day) ==
    /\ year >= 1 /\ year <= 9999
    /\ month >= 1 /\ month <= 12
    /\ day >= 1 /\ day <= DaysInMonth(year, month)

NoTime == [tm_year |-> 0, tm_mon |-> 0, tm_mday |-> 0, tm_hour |-> 0, tm_min |-> 0,
           tm_sec |-> 0, tm_wday |-> 0, tm_yday |-> 0, tm_isdst |-> 0]

ValueError == [ok |-> FALSE, t |-> NoTime]

\* the tm_isdst strptime derives from the %Z text found
ZoneValue(found_zone, tz) ==
    IF found_zone \in NoSaving(tz)
    THEN (IF tz.std = tz.dst /\ tz.daylight /\ found_zone \notin {"utc", "gmt"}
          THEN -1 ELSE 0)
    ELSE IF found_zone \in HasSaving(tz)
    THEN (IF tz.std = tz.dst /\ tz.daylight /\ found_zone \notin {"utc", "gmt"}
          THEN -1 ELSE 1)
    ELSE -1

\* time.strptime(data_string, format): ok and the struct_time, or ValueError
StrpTime(data_string, format, tz) ==
    LET data == Lower(data_string)
        m == MatchAt(FormatPattern(format, tz), data, 1, <<>>)
        int(g, default) ==
            IF HasCap(m, g) THEN DigitsToInt(Strip(Group(m, data, g))) ELSE default
        year == int("Y", 1900)
        month == IF HasCap(m, "b") THEN IndexOf(a_month, Group(m, data, "b"))
                 ELSE int("m", 1)
        day == int("d", 1)
    IN  IF ~m.ok THEN ValueError                        \* does not match format
        ELSE IF m.e - 1 # Len(data_string) THEN ValueError \* unconverted data remains
        ELSE IF ~ValidDate(year, month, day) THEN ValueError
        ELSE [ok |-> TRUE,
              t |-> [tm_year |-> year, tm_mon |-> month, tm_mday |-> day,
                     tm_hour |-> int("H", 0), tm_min |-> int("M", 0),
                     tm_sec |-> int("S", 0),
                     tm_wday |-> IF HasCap(m, "a")
                                 THEN IndexOf(a_weekday, Group(m, data, "a")) - 1
                                 ELSE (ToOrdinal(year, month, day) + 6) % 7,
                     tm_yday |-> DaysBeforeMonth(year, month) + day,
                     tm_isdst |-> IF HasCap(m, "Z")
                                  THEN ZoneValue(Group(m, data, "Z"), tz)
                                  ELSE -1]]

----------------------------------------------------------------------------
(* cast_date                                                               *)

\* the list with day and month exchanged in the compact format: the compact
\* dates of C11 must reject it
known_formats_day_first ==
    <<"%d-%b-%Y", "%Y-%m-%d", "%Y.%m.%d %H:%M:%S", "%Y.%m.%d", "%Y-%b-%d",
      "%d.%m.%Y %H:%M:%S", "%d.%m.%Y", "%d-%b-%Y %H:%M:%S %Z", "%Y-%m-%d %H:%M",
      "%a %b %d %H:%M:%S %Z %Y", "%d %b %Y %H:%M %Z", "%Y-%m-%dT%H:%M:%S",
      "%Y%m%d%H%M%S", "%Y%d%m", "%m/%d/%Y", "%d/%m/%Y", "%Y/%m/%d", "%Y. %m. %d.">>

\* the list with the day-first slash format before the month-first one: the
\* order of C20 must reject it
known_formats_day_slash_first ==
    <<"%d-%b-%Y", "%Y-%m-%d", "%Y.%m.%d %H:%M:%S", "%Y.%m.%d", "%Y-%b-%d",
      "%d.%m.%Y %H:%M:%S", "%d.%m.%Y", "%d-%b-%Y %H:%M:%S %Z", "%Y-%m-%d %H:%M",
      "%a %b %d %H:%M:%S %Z %Y", "%d %b %Y %H:%M %Z", "%Y-%m-%dT%H:%M:%S",
      "%Y%m%d%H%M%S", "%Y%m%d", "%d/%m/%Y", "%m/%d/%Y", "%Y/%m/%d", "%Y. %m. %d.">>

known_formats ==
    <<"%d-%b-%Y",                \* 02-jan-2000
      "%Y-%m-%d",                \* 2000-01-02
      "%Y.%m.%d %H:%M:%S",       \* 2006.06.12 15:53:14 (.pl)
      "%Y.%m.%d",                \* 2002.12.25 (.ru)
      "%Y-%b-%d",                \* 2008-Feb-5 (.nu)
      "%d.%m.%Y %H:%M:%S",       \* 18.05.2004 18:15:00 (.cz)
      "%d.%m.%Y",                \* 21.5.1998 (.fi)
      "%d-%b-%Y %H:%M:%S %Z",    \* 24-Jul-2009 13:20:03 UTC
      "%Y-%m-%d %H:%M",          \* 2000-03-07 00:00 (.cn)
      "%a %b %d %H:%M:%S %Z %Y", \* Tue Jun 21 23:59:59 GMT 2011
      "%d %b %Y %H:%M %Z",       \* 31 Dec 1999 05:00 PST (.fm)
      "%Y-%m-%dT%H:%M:%S",       \* 2007-01-26T19:10:31
      "%Y%m%d%H%M%S",            \* 20110209194637 (.ua)
      "%Y%m%d",                  \* 20020702 (isoc.org.il)
      "%m/%d/%Y",                \* 05/14/2002
      "%d/%m/%Y",                \* 13/09/2004 (.fr)
      "%Y/%m/%d",                \* 2004/10/14 (.jp)
      "%Y. %m. %d.">>            \* 2007. 04. 23. (.kr)

None == [kind |-> "None", t |-> NoTime]

\* the for loop of cast_date over the formats number lo to hi: the first
\* format that strptime accepts decides, a ValueError moves on to the next;
\* None when the loop runs out
RECURSIVE TryFormats(_, _, _, _, _)
TryFormats(s, formats, lo, hi, tz) ==
    IF lo = hi
    THEN LET r == StrpTime(s, formats[lo], tz)
         IN  IF r.ok THEN [kind |-> "struct_time", t |-> r.t] ELSE None
    ELSE LET mid == (lo + hi) \div 2
             r == TryFormats(s, formats, lo, mid, tz)
         IN  IF r # None THEN r ELSE TryFormats(s, formats, mid + 1, hi, tz)

\* cast_date without the strip(): the property of C10 must reject it
cast_date_unstripped(s, tz) == TryFormats(s, known_formats, 1, Len(known_formats), tz)

\* cast_date(date_str): every format is tried on date_str.strip()
cast_date(s, tz) == TryFormats(Strip(s), known_formats, 1, Len(known_formats), tz)

----------------------------------------------------------------------------
(* The regex tables: WhoisEntry._regex and the regex of each subclass      *)

S01 == <<Rep({"\\s"}, 0, 1)>>   \* \s?
S0 == <<Many({"\\s"}, 0)>>      \* \s*
S1 == <<Many({"\\s"}, 1)>>      \* \s+

\* 'label' sp '(.+)'
Label(label, sp) == <<Lit(label)>> \o sp \o <<Open("1"), Many({"ANY"}, 1), Close("1")>>

\* '[\w.-]+@[\w.-]+\.[\w]{2,4}'
Emails ==
    <<Many({"\\w", ".", "-"}, 1), Lit("@"), Many({"\\w", ".", "-"}, 1), Lit("."),
      Rep({"\\w"}, 2, 4)>>

\* WhoisEntry._regex
WhoisEntry_regex ==
    [domain_name     |-> Label("Domain Name:", S01),
     registrar       |-> Label("Registrar:", S01),
     whois_server    |-> Label("Whois Server:", S01),
     referral_url    |-> Label("Referral URL:", S01),
     updated_date    |-> Label("Updated Date:", S01),
     creation_date   |-> Label("Creation Date:", S01),
     expiration_date |-> Label("Expiration Date:", S01),
     name_servers    |-> Label("Name Server:", S01),
     status          |-> Label("Status:", S01),
     emails          |-> Emails]

\* WhoisOrg.regex
WhoisOrg_regex ==
    [domain_name               |-> Label("Domain Name:", S0),
     creation_date             |-> Label("Created On:", S0),
     expiration_date           |-> Label("Expiration Date:", S0),
     updated_date              |-> Label("Last Updated On:", S0),
     domain_id                 |-> Label("Domain ID:", S0),
     registrar                 |-> Label("Sponsoring Registrar:", S0),
     status                    |-> Label("Status:", S0),
     registrant_id             |-> Label("Registrant ID:", S0),
     registrant_organization   |-> Label("Registrant Organization:", S0),
     registrant_name           |-> Label("Registrant Name:", S0),
     registrant_address1       |-> Label("Registrant Street1:", S0),
     registrant_address2       |-> Label("Registrant Street2:", S0),
     registrant_city           |-> Label("Registrant City:", S0),
     registrant_state_province |-> Label("Registrant State/Province:", S0),
     registrant_postal_code    |-> Label("Registrant Postal Code:", S0),
     registrant_country        |-> Label("Registrant Country:", S0),
     registrant_phone_number   |-> Label("Registrant Phone:", S0),
     registrant_email          |-> Label("Registrant Email:", S0),
     admin_id                  |-> Label("Admin ID:", S0),
     admin_name                |-> Label("Admin Name:", S0),
     admin_organization        |-> Label("Admin Organization:", S0),
     admin_address1            |-> Label("Admin Street1:", S0),
     admin_address2            |-> Label("Admin Street2:", S0),
     admin_city                |-> Label("Admin City:", S0),
     admin_state_province      |-> Label("Admin State/Province:", S0),
     admin_postal_code         |-> Label("Admin Postal Code:", S0),
     admin_country             |-> Label("Admin Country:", S0),
     admin_phone_number        |-> Label("Admin Phone:", S0),
     admin_email               |-> Label("Admin Email:", S0),
     tech_id                   |-> Label("Tech ID:", S0),
     tech_name                 |-> Label("Tech Name:", S0),
     tech_organization         |-> Label("Tech Organization:", S0),
     tech_address1             |-> Label("Tech Street1:", S0),
     tech_address2             |-> Label("Tech Street2:", S0),
     tech_city                 |-> Label("Tech City:", S0),
     tech_state_province       |-> Label("Tech State/Province:", S0),
     tech_postal_code          |-> Label("Tech Postal Code:", S0),
     tech_country              |-> Label("Tech Country:", S0),
     tech_country_code         |-> Label("Tech Country Code:", S0),
     tech_phone_number         |-> Label("Tech Phone Number:", S0),
     tech_email                |-> Label("Tech Email:", S0),
     name_servers              |-> Label("Name Server:", S0)]

\* WhoisAu.regex
WhoisAu_regex ==
    [domain_name     |-> Label("Domain Name:", S0),
     registrar       |-> Label("Registrar Name:", S0),
     registrar_id    |-> Label("Registrar ID:", S0),
     registrant_name |-> Label("Registrant Name:", S0),
     registrant_id   |-> Label("Registrant ID:", S0),
     updated_date    |-> Label("Last Modified:", S0),
     name_servers    |-> Label("Name Server:", S0),
     status          |-> Label("Status:", S0)]

\* WhoisBiz.regex
WhoisBiz_regex ==
    [domain_name               |-> Label("Domain Name:", S0),
     creation_date             |-> Label("Domain Registration Date:", S0),
     expiration_date           |-> Label("Domain Expiration Date:", S0),
     updated_date              |-> Label("Domain Last Updated Date:", S0),
     domain_id                 |-> Label("Domain ID:", S0),
     registrar                 |-> Label("Sponsoring Registrar:", S0),
     status                    |-> Label("Domain Status:", S0),
     registrant_id             |-> Label("Registrant ID:", S0),
     registrant_name           |-> Label("Registrant Name:", S0),
     registrant_address1       |-> Label("Registrant Address1:", S0),
     registrant_city           |-> Label("Registrant City:", S0),
     registrant_state_province |-> Label("Registrant State/Province:", S0),
     registrant_postal_code    |-> Label("Registrant Postal Code:", S0),
     registrant_country        |-> Label("Registrant Country:", S0),
     registrant_country_code   |-> Label("Registrant Country Code:", S0),
     registrant_phone_number   |-> Label("Registrant Phone:", S0),
     registrant_email          |-> Label("Registrant Email:", S0),
     admin_id                  |-> Label("Administrative Contact ID:", S0),
     admin_name                |-> Label("Administrative Contact Name:", S0),
     admin_address1            |-> Label("Administrative Contact Address1:", S0),
     admin_city                |-> Label("Administrative Contact City:", S0),
     admin_state_province      |-> Label("Administrative Contact State/Province:", S0),
     admin_postal_code         |-> Label("Administrative Contact Postal Code:", S0),
     admin_country             |-> Label("Administrative Contact Country:", S0),
     admin_country_code        |-> Label("Administrative Contact Country Code:", S0),
     admin_phone_number        |-> Label("Administrative Contact Phone:", S0),
     admin_email               |-> Label("Administrative Contact Email:", S0),
     billing_id                |-> Label("Billing Contact ID:", S0),
     billing_name              |-> Label("Billing Contact Name:", S0),
     billing_address1          |-> Label("Billing Contact Address1:", S0),
     billing_city              |-> Label("Billing Contact City:", S0),
     billing_state_province    |-> Label("Billing Contact State/Province:", S0),
     billing_postal_code       |-> Label("Billing Contact Postal Code:", S0),
     billing_country           |-> Label("Billing Contact Country:", S0),
     billing_country_code      |-> Label("Billing Contact Country Code:", S0),
     billing_phone_number      |-> Label("Billing Contact Phone:", S0),
     billing_email             |-> Label("Billing Contact Email:", S0),
     tech_id                   |-> Label("Technical Contact ID:", S0),
     tech_name                 |-> Label("Technical Contact Name:", S0),
     tech_address1             |-> Label("Technical Contact Address1:", S0),
     tech_city                 |-> Label("Technical Contact City:", S0),
     tech_state_province       |-> Label("Technical Contact State/Province:", S0),
     tech_postal_code          |-> Label("Technical Contact Postal Code:", S0),
     tech_country              |-> Label("Technical Contact Country:", S0),
     tech_country_code         |-> Label("Technical Contact Country Code:", S0),
     tech_phone_number         |-> Label("Technical Contact Phone:", S0),
     tech_email                |-> Label("Technical Contact Email:", S0),
     name_servers              |-> Label("Name Server:", S0)]

\* WhoisCa.regex
WhoisCa_regex ==
    [domain_name     |-> Label("Domain name:", S0),
     creation_date   |-> Label("Creation date:", S0),
     updated_date    |-> Label("Updated date:", S0),
     expiration_date |-> Label("Expiry Date:", S0),
     name_servers    |-> <<Lit("Name servers:"), Rep({"\r"}, 0, 1), Lit("\n"), Many({"\\s"}, 0),
                           Open("1"), Many({"ANY"}, 1), Close("1")>>,
     status          |-> Label("Domain status:", S0),
     emails          |-> Emails]

\* WhoisCn.regex
WhoisCn_regex ==
    [domain_name             |-> Label("Domain Name:", S0),
     registrar               |-> Label("Sponsoring Registrar:", S0),
     registrant_organization |-> Label("Registrant Organization:", S0),
     registrant_name         |-> Label("Registrant Name:", S0),
     creation_date           |-> Label("Registration Date:", S0),
     expiration_date         |-> Label("Expiration Date:", S0),
     name_servers            |-> Label("Name Server:", S0),
     status                  |-> Label("Domain Status:", S0),
     emails                  |-> Emails]

\* WhoisCz.regex
WhoisCz_regex ==
    [domain_name     |-> Label("domain:", S0),
     creation_date   |-> Label("registered:", S0),
     updated_date    |-> Label("changed:", S0),
     expiration_date |-> Label("expire:", S0),
     name_servers    |-> Label("nserver:", S0)]

\* WhoisDe.regex
WhoisDe_regex ==
    [domain_name  |-> Label("Domain:", S0),
     updated_date |-> Label("Changed:", S0),
     name_servers |-> Label("Nserver:", S0),
     status       |-> Label("Status:", S0),
     emails       |-> Emails]

\* WhoisDk.regex
WhoisDk_regex ==
    [domain_name     |-> Label("Domain:", S0),
     creation_date   |-> Label("Registered:", S0),
     expiration_date |-> Label("Expires:", S0),
     name_servers    |-> Label("Hostname:", S0),
     status          |-> Label("Status:", S0)]

\* WhoisFi.regex
WhoisFi_regex ==
    [domain_name     |-> Label("domain:", S0),
     creation_date   |-> Label("created:", S0),
     expiration_date |-> Label("expires:", S0),
     name_servers    |-> <<Lit("nserver:"), Many({"\\s"}, 0), Open("1"), Many({"ANY"}, 1),
                           Close("1"), Lit(" ")>>,
     status          |-> Label("status:", S0)]

\* WhoisFm.regex
WhoisFm_regex ==
    [domain_name     |-> Label("Query:", S0),
     registrar       |-> Label("Registrar Name:", S0),
     creation_date   |-> Label("Created:", S0),
     updated_date    |-> Label("Modified::", S0),
     expiration_date |-> Label("Expires:", S0),
     name_servers    |-> <<Lit("Name Servers:"), Rep({"\r"}, 0, 1), Lit("\n"), Many({"\\s"}, 0),
                           Open("1"), Many({"ANY"}, 1), Close("1"), Lit(" ")>>,
     status          |-> Label("Status:", S0),
     emails          |-> Emails]

\* WhoisFr.regex
WhoisFr_regex ==
    [domain_name   |-> Label("domain:", S0),
     registrar_id  |-> Label("source:", S0),
     registrar     |-> Label("registrar:", S0),
     admin_id      |-> Label("admin-c:", S0),
     technical_id  |-> Label("tech-c:", S0),
     creation_date |-> Label("created:", S0),
     updated_date  |-> Label("last-update:", S0),
     name_servers  |-> Label("nserver:", S0),
     status        |-> Label("status:", S0),
     emails        |-> Emails]

\* WhoisJp.regex
WhoisJp_regex ==
    [domain_name     |-> Label("[Domain Name]", S1),
     registrar       |-> Label("[Registrant]", S1),
     creation_date   |-> <<Lit("["), Alt(<<<<Lit("Created on")>>, <<Lit("Registered Date")>>>>),
                           Lit("]"), Many({"\\s"}, 1), Open("1"), Many({"ANY"}, 1), Close("1")>>,
     updated_date    |-> <<Lit("[Last Update"), Rep({"d"}, 0, 1), Lit("]"), Many({"\\s"}, 1),
                           Open("1"), Many({"ANY"}, 1), Close("1")>>,
     expiration_date |-> Label("[Expires on]", S1),
     name_servers    |-> Label("[Name Server]", S1),
     status          |-> <<Lit("["), Alt(<<<<Lit("Status")>>, <<Lit("State")>>>>), Lit("]"),
                           Many({"\\s"}, 1), Open("1"), Many({"ANY"}, 1), Close("1")>>,
     emails          |-> Emails]

\* WhoisKr.regex
WhoisKr_regex ==
    [domain_name     |-> <<Lit("Domain Name"), Many({"\\s"}, 0), Lit(":"), Many({"\\s"}, 0),
                           Open("1"), Many({"ANY"}, 1), Close("1")>>,
     creation_date   |-> <<Lit("Registered Date"), Many({"\\s"}, 0), Lit(":"), Many({"\\s"}, 0),
                           Open("1"), Many({"ANY"}, 1), Close("1")>>,
     updated_date    |-> <<Lit("Last updated Date"), Many({"\\s"}, 0), Lit(":"), Many({"\\s"}, 0),
                           Open("1"), Many({"ANY"}, 1), Close("1")>>,
     expiration_date |-> <<Lit("Expiration Date"), Many({"\\s"}, 0), Lit(":"), Many({"\\s"}, 0),
                           Open("1"), Many({"ANY"}, 1), Close("1")>>,
     registrant      |-> <<Lit("Authorized Agency"), Many({"\\s"}, 0), Lit(":"), Many({"\\s"}, 0),
                           Open("1"), Many({"ANY"}, 1), Close("1")>>,
     name_servers    |-> <<Lit("Name Server"), Rep({"\r"}, 0, 1), Lit("\n"), Many({"\\s"}, 0),
                           Lit("Host Name"), Many({"\\s"}, 0), Lit(":"), Many({"\\s"}, 0),
                           Open("1"), Many({"ANY"}, 1), Close("1")>>,
     status          |-> <<Lit("Publishes"), Many({"\\s"}, 0), Lit(":"), Many({"\\s"}, 0),
                           Open("1"), Many({"ANY"}, 1), Close("1")>>,
     admin_name      |-> Label("Administrative Contact(AC):", <<>>),
     emails          |-> Emails]

\* WhoisNo.regex
WhoisNo_regex ==
    [domain_name   |-> <<Lit("Domain Name"), Many({"."}, 1), Lit(":"), Many({"\\s"}, 0), Open("1"),
                         Many({"ANY"}, 1), Close("1")>>,
     creation_date |-> Label("Created:", S0),
     updated_date  |-> Label("Last updated:", S0),
     emails        |-> Emails]

\* WhoisNu.regex
WhoisNu_regex ==
    [domain_name     |-> <<Lit("Domain Name"), Many({"ANY"}, 0), Lit(":"), Many({"\\s"}, 0),
                           Open("1"), Many({"ANY"}, 1), Close("1")>>,
     creation_date   |-> <<Lit("Record created on "), Open("1"), Many({"ANY"}, 1), Close("1"),
                           Lit(".")>>,
     updated_date    |-> <<Lit("Record last updated on "), Open("1"), Many({"ANY"}, 1), Close("1"),
                           Lit(".")>>,
     expiration_date |-> <<Lit("Record expires on "), Open("1"), Many({"ANY"}, 1), Close("1"),
                           Lit(".")>>,
     status          |-> Label("Record status:", S0),
     name_servers    |-> <<Lit("Domain servers in listed order:"), Rep({"\r"}, 0, 1), Lit("\n"),
                           Many({"\\s"}, 0), Open("1"), Many({"ANY"}, 1), Close("1")>>,
     emails          |-> Emails]

\* WhoisPl.regex
WhoisPl_regex ==
    [domain_name   |-> Label("DOMAIN NAME:", S0),
     creation_date |-> Label("created:", S0),
     updated_date  |-> Label("last modified:", S0),
     name_servers  |-> Label("nameservers:", S0),
     emails        |-> Emails]

\* WhoisRu.regex
WhoisRu_regex ==
    [domain_name     |-> Label("domain:", S0),
     registrar       |-> Label("registrar:", S0),
     creation_date   |-> Label("created:", S0),
     expiration_date |-> Label("paid-till:", S0),
     name_servers    |-> Label("nserver:", S0),
     status          |-> Label("state:", S0),
     emails          |-> Emails]

\* WhoisSk.regex
WhoisSk_regex ==
    [domain_name     |-> Label("Domain-name", S0),
     expiration_date |-> Label("Valid-date", S0),
     updated_date    |-> Label("Last-update", S0),
     name_servers    |-> Label("dns_name", S0),
     status          |-> Label("Domain-status", S0),
     emails          |-> Emails]

\* WhoisTk.regex
WhoisTk_regex ==
    [domain_name     |-> <<Lit("Domain name:"), Rep({"\r"}, 0, 1), Lit("\n"), Many({"\\s"}, 0),
                           Open("1"), Many({"ANY"}, 1), Close("1")>>,
     registrant_name |-> <<Lit("Organisation:"), Rep({"\r"}, 0, 1), Lit("\n"), Many({"\\s"}, 0),
                           Open("1"), Many({"ANY"}, 1), Close("1")>>,
     registrar       |-> Label("Record maintained by:", S0),
     creation_date   |-> Label("Domain registered:", S0),
     expiration_date |-> Label("Record will expire on ", <<>>),
     name_servers    |-> <<Lit("Domain Nameservers:"), Rep({"\r"}, 0, 1), Lit("\n"),
                           Many({"\\s"}, 0), Open("1"), Many({"ANY"}, 1), Close("1")>>,
     status          |-> <<Open("1"), Lit("Your selected domain name "),
                           Many({"\r", "\n", "\\w", "\\s", "\\d"}, 1), Close("1")>>,
     emails          |-> Emails]

\* WhoisTw.regex
WhoisTw_regex ==
    [domain_name     |-> Label("Domain Name:", S0),
     registrar       |-> Label("Registration Service Provider:", S0),
     creation_date   |-> <<Many({"\\s"}, 0), Lit("Record created on "), Open("1"),
                           Many({"ANY"}, 1), Close("1"), Lit(" (")>>,
     expiration_date |-> <<Many({"\\s"}, 0), Lit("Record expires on "), Open("1"),
                           Many({"ANY"}, 1), Close("1"), Lit(" (")>>,
     name_servers    |-> <<Many({"\\s"}, 1), Open("1"), Many({"\\w", "\\d", ".-_"}, 1), Close("1"),
                           Many({"\\s"}, 1), Many({"\\d", "."}, 1)>>,
     emails          |-> Emails]

\* WhoisName.regex
WhoisName_regex ==
    [domain_name_id  |-> Label("Domain Name ID:", S0),
     domain_name     |-> Label("Domain Name:", S0),
     registrar_id    |-> Label("Sponsoring Registrar ID:", S0),
     registrar       |-> Label("Sponsoring Registrar:", S0),
     registrant_id   |-> Label("Registrant ID:", S0),
     admin_id        |-> Label("Admin ID:", S0),
     technical_id    |-> Label("Tech ID:", S0),
     billing_id      |-> Label("Billing ID:", S0),
     creation_date   |-> Label("Created On:", S0),
     expiration_date |-> Label("Expires On:", S0),
     updated_date    |-> Label("Updated On:", S0),
     name_server_ids |-> Label("Name Server ID:", S0),
     name_servers    |-> Label("Name Server:", S0),
     status          |-> Label("Domain Status:", S0)]

\* WhoisUa.regex
WhoisUa_regex ==
    [domain_name     |-> Label("domain:", S0),
     registrar_id    |-> Label("source:", S0),
     admin_id        |-> Label("admin-c:", S0),
     technical_id    |-> Label("tech-c:", S0),
     creation_date   |-> <<Lit("created:"), Many({"\\s"}, 0), Many({"ANY"}, 1), Lit(" "),
                           Open("1"), Many({"ANY"}, 1), Close("1")>>,
     expiration_date |-> <<Lit("status:"), Many({"\\s"}, 0), Lit("OK-UNTIL "), Open("1"),
                           Many({"ANY"}, 1), Close("1")>>,
     updated_date    |-> <<Lit("changed:"), Many({"\\s"}, 0), Many({"ANY"}, 1), Lit(" "),
                           Open("1"), Many({"ANY"}, 1), Close("1")>>,
     name_servers    |-> Label("nserver:", S0),
     status          |-> Label("status:", S0),
     emails          |-> Emails]

\* WhoisUs.regex
WhoisUs_regex ==
    [domain_name                    |-> Label("Domain Name:", S0),
     domain__id                     |-> Label("Domain ID:", S0),
     registrar                      |-> Label("Sponsoring Registrar:", S0),
     registrar_id                   |-> Label("Sponsoring Registrar IANA ID:", S0),
     registrar_url                  |-> Label("Registrar URL (registration services):", S0),
     status                         |-> Label("Domain Status:", S0),
     registrant_id                  |-> Label("Registrant ID:", S0),
     registrant_name                |-> Label("Registrant Name:", S0),
     registrant_address1            |-> Label("Registrant Address1:", S0),
     registrant_address2            |-> Label("Registrant Address2:", S0),
     registrant_city                |-> Label("Registrant City:", S0),
     registrant_state_province      |-> Label("Registrant State/Province:", S0),
     registrant_postal_code         |-> Label("Registrant Postal Code:", S0),
     registrant_country             |-> Label("Registrant Country:", S0),
     registrant_country_code        |-> Label("Registrant Country Code:", S0),
     registrant_phone_number        |-> Label("Registrant Phone Number:", S0),
     registrant_email               |-> Label("Registrant Email:", S0),
     registrant_application_purpose |-> Label("Registrant Application Purpose:", S0),
     registrant_nexus_category      |-> Label("Registrant Nexus Category:", S0),
     admin_id                       |-> Label("Administrative Contact ID:", S0),
     admin_name                     |-> Label("Administrative Contact Name:", S0),
     admin_address1                 |-> Label("Administrative Contact Address1:", S0),
     admin_address2                 |-> Label("Administrative Contact Address2:", S0),
     admin_city                     |-> Label("Administrative Contact City:", S0),
     admin_state_province           |-> Label("Administrative Contact State/Province:", S0),
     admin_postal_code              |-> Label("Administrative Contact Postal Code:", S0),
     admin_country                  |-> Label("Administrative Contact Country:", S0),
     admin_country_code             |-> Label("Administrative Contact Country Code:", S0),
     admin_phone_number             |-> Label("Administrative Contact Phone Number:", S0),
     admin_email                    |-> Label("Administrative Contact Email:", S0),
     admin_application_purpose      |-> Label("Administrative Application Purpose:", S0),
     admin_nexus_category           |-> Label("Administrative Nexus Category:", S0),
     billing_id                     |-> Label("Billing Contact ID:", S0),
     billing_name                   |-> Label("Billing Contact Name:", S0),
     billing_address1               |-> Label("Billing Contact Address1:", S0),
     billing_address2               |-> Label("Billing Contact Address2:", S0),
     billing_city                   |-> Label("Billing Contact City:", S0),
     billing_state_province         |-> Label("Billing Contact State/Province:", S0),
     billing_postal_code            |-> Label("Billing Contact Postal Code:", S0),
     billing_country                |-> Label("Billing Contact Country:", S0),
     billing_country_code           |-> Label("Billing Contact Country Code:", S0),
     billing_phone_number           |-> Label("Billing Contact Phone Number:", S0),
     billing_email                  |-> Label("Billing Contact Email:", S0),
     billing_application_purpose    |-> Label("Billing Application Purpose:", S0),
     billing_nexus_category         |-> Label("Billing Nexus Category:", S0),
     tech_id                        |-> Label("Technical Contact ID:", S0),
     tech_name                      |-> Label("Technical Contact Name:", S0),
     tech_address1                  |-> Label("Technical Contact Address1:", S0),
     tech_address2                  |-> Label("Technical Contact Address2:", S0),
     tech_city                      |-> Label("Technical Contact City:", S0),
     tech_state_province            |-> Label("Technical Contact State/Province:", S0),
     tech_postal_code               |-> Label("Technical Contact Postal Code:", S0),
     tech_country                   |-> Label("Technical Contact Country:", S0),
     tech_country_code              |-> Label("Technical Contact Country Code:", S0),
     tech_phone_number              |-> Label("Technical Contact Phone Number:", S0),
     tech_email                     |-> Label("Technical Contact Email:", S0),
     tech_application_purpose       |-> Label("Technical Application Purpose:", S0),
     tech_nexus_category            |-> Label("Technical Nexus Category:", S0),
     name_servers                   |-> Label("Name Server:", S0),
     created_by_registrar           |-> Label("Created by Registrar:", S0),
     last_updated_by_registrar      |-> Label("Last Updated by Registrar:", S0),
     creation_date                  |-> Label("Domain Registration Date:", S0),
     expiration_date                |-> Label("Domain Expiration Date:", S0),
     updated_date                   |-> Label("Domain Last Updated Date:", S0)]

\* WhoisMe.regex
WhoisMe_regex ==
    [domain_id                   |-> Label("Domain ID:", <<>>),
     domain_name                 |-> Label("Domain Name:", <<>>),
     creation_date               |-> Label("Domain Create Date:", <<>>),
     updated_date                |-> Label("Domain Last Updated Date:", <<>>),
     expiration_date             |-> Label("Domain Expiration Date:", <<>>),
     transfer_date               |-> Label("Last Transferred Date:", <<>>),
     trademark_name              |-> Label("Trademark Name:", <<>>),
     trademark_country           |-> Label("Trademark Country:", <<>>),
     trademark_number            |-> Label("Trademark Number:", <<>>),
     trademark_application_date  |-> Label("Date Trademark Applied For:", <<>>),
     trademark_registration_date |-> Label("Date Trademark Registered:", <<>>),
     registrar                   |-> Label("Sponsoring Registrar:", <<>>),
     created_by                  |-> Label("Created by:", <<>>),
     updated_by                  |-> Label("Last Updated by Registrar:", <<>>),
     status                      |-> Label("Domain Status:", <<>>),
     registrant_id               |-> Label("Registrant ID:", <<>>),
     registrant_name             |-> Label("Registrant Name:", <<>>),
     registrant_org              |-> Label("Registrant Organization:", <<>>),
     registrant_address          |-> Label("Registrant Address:", <<>>),
     registrant_address2         |-> Label("Registrant Address2:", <<>>),
     registrant_address3         |-> Label("Registrant Address3:", <<>>),
     registrant_city             |-> Label("Registrant City:", <<>>),
     registrant_state_province   |-> Label("Registrant State/Province:", <<>>),
     registrant_country          |-> Label("Registrant Country/Economy:", <<>>),
     registrant_postal_code      |-> Label("Registrant Postal Code:", <<>>),
     registrant_phone            |-> Label("Registrant Phone:", <<>>),
     registrant_phone_ext        |-> Label("Registrant Phone Ext.:", <<>>),
     registrant_fax              |-> Label("Registrant FAX:", <<>>),
     registrant_fax_ext          |-> Label("Registrant FAX Ext.:", <<>>),
     registrant_email            |-> Label("Registrant E-mail:", <<>>),
     admin_id                    |-> Label("Admin ID:", <<>>),
     admin_name                  |-> Label("Admin Name:", <<>>),
     admin_org                   |-> Label("Admin Organization:", <<>>),
     admin_address               |-> Label("Admin Address:", <<>>),
     admin_address2              |-> Label("Admin Address2:", <<>>),
     admin_address3              |-> Label("Admin Address3:", <<>>),
     admin_city                  |-> Label("Admin City:", <<>>),
     admin_state_province        |-> Label("Admin State/Province:", <<>>),
     admin_country               |-> Label("Admin Country/Economy:", <<>>),
     admin_postal_code           |-> Label("Admin Postal Code:", <<>>),
     admin_phone                 |-> Label("Admin Phone:", <<>>),
     admin_phone_ext             |-> Label("Admin Phone Ext.:", <<>>),
     admin_fax                   |-> Label("Admin FAX:", <<>>),
     admin_fax_ext               |-> Label("Admin FAX Ext.:", <<>>),
     admin_email                 |-> Label("Admin E-mail:", <<>>),
     tech_id                     |-> Label("Tech ID:", <<>>),
     tech_name                   |-> Label("Tech Name:", <<>>),
     tech_org                    |-> Label("Tech Organization:", <<>>),
     tech_address                |-> Label("Tech Address:", <<>>),
     tech_address2               |-> Label("Tech Address2:", <<>>),
     tech_address3               |-> Label("Tech Address3:", <<>>),
     tech_city                   |-> Label("Tech City:", <<>>),
     tech_state_province         |-> Label("Tech State/Province:", <<>>),
     tech_country                |-> Label("Tech Country/Economy:", <<>>),
     tech_postal_code            |-> Label("Tech Postal Code:", <<>>),
     tech_phone                  |-> Label("Tech Phone:", <<>>),
     tech_phone_ext              |-> Label("Tech Phone Ext.:", <<>>),
     tech_fax                    |-> Label("Tech FAX:", <<>>),
     tech_fax_ext                |-> Label("Tech FAX Ext.:", <<>>),
     tech_email                  |-> Label("Tech E-mail:", <<>>),
     name_servers                |-> Label("Nameservers:", <<>>)]

\* WhoisUk.regex
WhoisUk_regex ==
    [domain_name     |-> <<Lit("Domain name:"), Rep({"\r"}, 0, 1), Lit("\n"), Many({"\\s"}, 0),
                           Open("1"), Many({"ANY"}, 1), Close("1")>>,
     registrar       |-> <<Lit("Registrar:"), Rep({"\r"}, 0, 1), Lit("\n"), Many({"\\s"}, 0),
                           Open("1"), Many({"ANY"}, 1), Close("1")>>,
     registrar_url   |-> Label("URL:", S0),
     status          |-> <<Lit("Registration status:"), Rep({"\r"}, 0, 1), Lit("\n"),
                           Many({"\\s"}, 0), Open("1"), Many({"ANY"}, 1), Close("1")>>,
     registrant_name |-> <<Lit("Registrant:"), Rep({"\r"}, 0, 1), Lit("\n"), Many({"\\s"}, 0),
                           Open("1"), Many({"ANY"}, 1), Close("1")>>,
     creation_date   |-> Label("Registered on:", S0),
     expiration_date |-> Label("Renewal date:", S0),
     updated_date    |-> Label("Last updated:", S0),
     name_servers    |-> <<Lit("Name servers:"), Rep({"\r"}, 0, 1), Lit("\n"), Many({"\\s"}, 0),
                           Open("1"), Many({"ANY"}, 1), Close("1")>>]

\* WhoisIl.regex
WhoisIl_regex ==
    [creation_date   |-> <<Lit("changed:"), Many({"ANY"}, 0), Lit(".il "), Open("1"),
                           Many({"ANY"}, 1), Close("1"), Lit(" (Assigned)")>>,
     domain_name     |-> Label("domain:", S0),
     registrar       |-> Label("registrar name:", S0),
     expiration_date |-> Label("validity:", S0),
     name_servers    |-> Label("nserver:", S0),
     status          |-> Label("status:", S0),
     emails          |-> <<Many({"\\w", ".", "-"}, 1), Lit(" AT "), Many({"\\w", ".", "-"}, 1),
                           Lit("."), Rep({"\\w"}, 2, 4)>>]

----------------------------------------------------------------------------
(* The classes                                                             *)

\* the regex table a name refers to
Table(name) ==
    CASE name = "WhoisEntry_regex" -> WhoisEntry_regex
      [] name = "WhoisOrg_regex" -> WhoisOrg_regex
      [] name = "WhoisAu_regex" -> WhoisAu_regex
      [] name = "WhoisBiz_regex" -> WhoisBiz_regex
      [] name = "WhoisCa_regex" -> WhoisCa_regex
      [] name = "WhoisCn_regex" -> WhoisCn_regex
      [] name = "WhoisCz_regex" -> WhoisCz_regex
      [] name = "WhoisDe_regex" -> WhoisDe_regex
      [] name = "WhoisDk_regex" -> WhoisDk_regex
      [] name = "WhoisFi_regex" -> WhoisFi_regex
      [] name = "WhoisFm_regex" -> WhoisFm_regex
      [] name = "WhoisFr_regex" -> WhoisFr_regex
      [] name = "WhoisJp_regex" -> WhoisJp_regex
      [] name = "WhoisKr_regex" -> WhoisKr_regex
      [] name = "WhoisNo_regex" -> WhoisNo_regex
      [] name = "WhoisNu_regex" -> WhoisNu_regex
      [] name = "WhoisPl_regex" -> WhoisPl_regex
      [] name = "WhoisRu_regex" -> WhoisRu_regex
      [] name = "WhoisSk_regex" -> WhoisSk_regex
      [] name = "WhoisTk_regex" -> WhoisTk_regex
      [] name = "WhoisTw_regex" -> WhoisTw_regex
      [] name = "WhoisName_regex" -> WhoisName_regex
      [] name = "WhoisUa_regex" -> WhoisUa_regex
      [] name = "WhoisUs_regex" -> WhoisUs_regex
      [] name = "WhoisMe_regex" -> WhoisMe_regex
      [] name = "WhoisUk_regex" -> WhoisUk_regex
      [] name = "WhoisIl_regex" -> WhoisIl_regex

\* class WhoisInfo(WhoisOrg), WhoisCo(WhoisBiz), WhoisSu(WhoisRu): the body is
\* pass, so regex and __init__ are the base class's; every other class
\* derives from WhoisEntry and has an __init__ of its own
Definer(cls) ==
    CASE cls = "WhoisInfo" -> "WhoisOrg"
      [] cls = "WhoisCo" -> "WhoisBiz"
      [] cls = "WhoisSu" -> "WhoisRu"
      [] OTHER -> cls

\* whether the class has a class attribute regex (WhoisEntry, WhoisCom and
\* WhoisNet have only WhoisEntry._regex)
HasRegexAttr(cls) == cls \notin {"WhoisEntry", "WhoisCom", "WhoisNet"}

\* one check for every class, each sentinel compared with the stripped text:
\* the substring rules of C5 must reject it
RaisesNotFoundTrimmed(cls, text) ==
    Strip(text) \in {"No match for \"", "NOT FOUND", "No Data Found", "Not found:",
                     "no matching record", "No entries found", "Status: free", "Error",
                     "Domain not found", "No match", "NO MATCH",
                     "No information available", "Not found", "No found", "No match.",
                     "No entries found for"}

\* one check for every class, the base class too, each sentinel looked for
\* anywhere in the text: the classes without a check of C8 must reject it
RaisesNotFoundUnified(cls, text) ==
    \E sentinel \in {"No match", "NOT FOUND", "No Data Found", "Not found",
                      "no matching record", "No entries found", "Status: free", "Error",
                      "Domain not found", "NO MATCH", "No information available",
                      "No found"} : Contains(sentinel, text)

\* the condition under which cls.__init__ raises PywhoisError(text)
RaisesNotFound(cls, text) ==
    LET c == Definer(cls)
    IN  CASE c = "WhoisCom" -> Contains("No match for \"", text)
          [] c = "WhoisNet" -> Contains("No match for \"", text)
          [] c = "WhoisOrg" -> Strip(text) = "NOT FOUND"
          [] c = "WhoisAu" -> Strip(text) = "No Data Found"
          [] c = "WhoisBiz" -> Contains("Not found:", text)
          [] c = "WhoisCa" -> FALSE
          [] c = "WhoisCn" -> Contains("no matching record", text)
          [] c = "WhoisCz" -> Contains("No entries found", text)
          [] c = "WhoisDe" -> Contains("Status: free", text) \/ Contains("Error", text)
          [] c = "WhoisDk" -> Contains("No entries found", text)
          [] c = "WhoisFi" -> Contains("Domain not found", text)
          [] c = "WhoisFm" -> FALSE
          [] c = "WhoisFr" -> Contains("No entries found", text)
          [] c = "WhoisJp" -> Strip(text) = "No match"
          [] c = "WhoisKr" -> Strip(text) = "No match"
          [] c = "WhoisNo" -> Strip(text) = "No match"
          [] c = "WhoisNu" -> Contains("NO MATCH", text)
          [] c = "WhoisPl" -> Strip(text) = "No information available"
          [] c = "WhoisRu" -> Strip(text) = "No entries found"
          [] c = "WhoisSk" -> Contains("Not found", text)
          [] c = "WhoisTk" ->
               Strip(text) = "Invalid query or domain name not known in Dot TK Domain Registry"
          [] c = "WhoisTw" -> Strip(text) = "No found"
          [] c = "WhoisName" -> Contains("No match.", text)
          [] c = "WhoisUa" -> Contains("No entries found for", text)
          [] c = "WhoisUs" -> Contains("Not found:", text)
          [] c = "WhoisMe" -> Contains("NOT FOUND", text)
          [] c = "WhoisUk" -> Contains("Not found:", text)
          [] c = "WhoisIl" -> Strip(text) = "No entries found"
          [] c = "WhoisEntry" -> FALSE

EmptyDict == [a \in {} |-> <<>>]

NoEntry == [cls |-> "", domain |-> "", text |-> "", regex |-> "", dict |-> EmptyDict]

\* __init__ that leaves the generic table in force whatever table is passed:
\* the tables of C15 must reject it
WhoisEntry_init_generic(cls, domain, text, regex) ==
    [cls |-> cls, domain |-> domain, text |-> text, regex |-> "WhoisEntry_regex",
     dict |-> EmptyDict]

\* WhoisEntry.__init__(self, domain, text, regex): domain and text are set,
\* and _regex too when a table is passed; dict holds the attributes that
\* setattr adds later
WhoisEntry_init(cls, domain, text, regex) ==
    [cls |-> cls, domain |-> domain, text |-> text, regex |-> regex, dict |-> EmptyDict]

\* cls(domain, text) with WhoisEntry.__init__ run before the check, so that
\* the object exists when the check raises: C17 must reject it
NewBeforeCheck(cls, domain, text) ==
    [raised |-> RaisesNotFound(cls, text),
     payload |-> IF RaisesNotFound(cls, text) THEN text ELSE "",
     entry |-> WhoisEntry_init(cls, domain, text,
                               IF HasRegexAttr(cls)
                               THEN Definer(cls) \o "_regex" ELSE "WhoisEntry_regex")]

\* cls(domain, text): the subclass check, then WhoisEntry.__init__ with
\* self.regex (WhoisCom and WhoisNet pass none, which leaves the class
\* attribute WhoisEntry._regex in force)
New(cls, domain, text) ==
    IF RaisesNotFound(cls, text)
    THEN [raised |-> TRUE, payload |-> text, entry |-> NoEntry]
    ELSE [raised |-> FALSE, payload |-> "",
          entry |-> WhoisEntry_init(cls, domain, text,
                                    IF HasRegexAttr(cls)
                                    THEN Definer(cls) \o "_regex"
                                    ELSE "WhoisEntry_regex")]

\* a chain whose first test looks for ".co" in the last four characters and
\* shadows the tests after it: the dispatch of C4 must reject it
ClassForShadowing(domain) ==
    IF Contains(".co", LastChars(domain, 4)) THEN "WhoisCom"
    ELSE IF ".net" = LastChars(domain, 4) THEN "WhoisNet"
    ELSE IF ".org" = LastChars(domain, 4) THEN "WhoisOrg"
    ELSE "WhoisEntry"

\* the if/elif chain of WhoisEntry.load: the class the domain selects
ClassFor(domain) ==
    IF ".com" = LastChars(domain, 4) THEN "WhoisCom"
    ELSE IF ".net" = LastChars(domain, 4) THEN "WhoisNet"
    ELSE IF ".org" = LastChars(domain, 4) THEN "WhoisOrg"
    ELSE IF ".au" = LastChars(domain, 3) THEN "WhoisAu"
    ELSE IF ".biz" = LastChars(domain, 4) THEN "WhoisBiz"
    ELSE IF ".ca" = LastChars(domain, 3) THEN "WhoisCa"
    ELSE IF ".cn" = LastChars(domain, 3) THEN "WhoisCn"
    ELSE IF ".co" = LastChars(domain, 3) THEN "WhoisCo"
    ELSE IF ".cz" = LastChars(domain, 3) THEN "WhoisCz"
    ELSE IF ".de" = LastChars(domain, 3) THEN "WhoisDe"
    ELSE IF ".dk" = LastChars(domain, 3) THEN "WhoisDk"
    ELSE IF ".fi" = LastChars(domain, 3) THEN "WhoisFi"
    ELSE IF ".fm" = LastChars(domain, 3) THEN "WhoisFm"
    ELSE IF ".fr" = LastChars(domain, 3) THEN "WhoisFr"
    ELSE IF ".il" = LastChars(domain, 3) THEN "WhoisIl"
    ELSE IF ".info" = LastChars(domain, 5) THEN "WhoisInfo"
    ELSE IF ".jp" = LastChars(domain, 3) THEN "WhoisJp"
    ELSE IF ".kr" = LastChars(domain, 3) THEN "WhoisKr"
    ELSE IF ".me" = LastChars(domain, 3) THEN "WhoisMe"
    ELSE IF ".name" = LastChars(domain, 5) THEN "WhoisName"
    ELSE IF ".no" = LastChars(domain, 3) THEN "WhoisNo"
    ELSE IF ".nu" = LastChars(domain, 3) THEN "WhoisNu"
    ELSE IF ".pl" = LastChars(domain, 3) THEN "WhoisPl"
    ELSE IF ".tk" = LastChars(domain, 3) THEN "WhoisTk"
    ELSE IF ".tw" = LastChars(domain, 3) THEN "WhoisTw"
    ELSE IF ".ru" = LastChars(domain, 3) THEN "WhoisRu"
    ELSE IF ".sk" = LastChars(domain, 3) THEN "WhoisSk"
    ELSE IF ".su" = LastChars(domain, 3) THEN "WhoisSu"
    ELSE IF ".ua" = LastChars(domain, 3) THEN "WhoisUa"
    ELSE IF ".uk" = LastChars(domain, 3) THEN "WhoisUk"
    ELSE IF ".us" = LastChars(domain, 3) THEN "WhoisUs"
    ELSE "WhoisEntry"

\* the check without the strip(): the global sentinel of C7 must reject it
NoServerKnownUntrimmed(text) ==
    text = "No whois server is known for this kind of object."

\* the check WhoisEntry.load makes before it looks at the domain
NoServerKnown(text) ==
    Strip(text) = "No whois server is known for this kind of object."

\* WhoisEntry.load(domain, text)
load(domain, text) ==
    IF NoServerKnown(text)
    THEN [raised |-> TRUE, payload |-> text, entry |-> NoEntry]
    ELSE New(ClassFor(domain), domain, text)

----------------------------------------------------------------------------
(* Attribute access on a WhoisEntry                                        *)

\* what an attribute access gives back: the object after it, the kind of
\* outcome ("list", "str", "object" or "KeyError"), the list or string it
\* returned, and whether re.findall ran
Outcome(e, kind, list, str, ran) ==
    [entry |-> e, kind |-> kind, list |-> list, str |-> str, ran |-> ran]

\* setattr that adds the value to the list the attribute already has: the
\* race of C16 must reject it
setattr_extend(e, attr, value) ==
    [e EXCEPT !.dict = (attr :> (IF attr \in DOMAIN e.dict THEN e.dict[attr] ELSE <<>>)
                                  \o value) @@ e.dict]

\* setattr(self, attr, value)
setattr(e, attr, value) == [e EXCEPT !.dict = (attr :> value) @@ e.dict]

\* the names every instance finds without __getattr__: the attributes set by
\* __init__, the methods and tables of the class, and those of object
OwnAttrs(e) ==
    {"domain", "text", "_regex", "attrs", "load",
     "__init__", "__getattr__", "__str__", "__class__", "__dict__"}
    \cup (IF HasRegexAttr(e.cls) THEN {"regex"} ELSE {})

\* __getattr__ without the setattr, which computes the list at every call:
\* the memoization of C1 must reject it
WhoisEntry__getattr__NoCache(e, attr) ==
    LET regex == Table(e.regex)
    IN  IF attr \in DOMAIN regex /\ regex[attr] # <<>>
        THEN Outcome(e, "list", FindAll(regex[attr], e.text), "", TRUE)
        ELSE Outcome(e, "KeyError", <<>>, "Unknown attribute: " \o attr, FALSE)

\* __getattr__ that answers an unknown name with an empty list: the
\* KeyError of C2 must reject it
WhoisEntry__getattr__Lenient(e, attr) ==
    LET regex == Table(e.regex)
        found == IF attr \in DOMAIN regex THEN FindAll(regex[attr], e.text) ELSE <<>>
    IN  Outcome(setattr(e, attr, found), "list", found, "", attr \in DOMAIN regex)

\* __getattr__ that notes an unknown name in the object before it raises:
\* the cache of C18 must reject it
WhoisEntry__getattr__NoteUnknown(e, attr) ==
    LET regex == Table(e.regex)
    IN  IF attr \in DOMAIN regex /\ regex[attr] # <<>>
        THEN Outcome(setattr(e, attr, FindAll(regex[attr], e.text)), "list",
                     FindAll(regex[attr], e.text), "", TRUE)
        ELSE Outcome(setattr(e, attr, <<>>), "KeyError", <<>>,
                     "Unknown attribute: " \o attr, FALSE)

\* __getattr__ that raises KeyError when findall found nothing: the empty
\* list of C3 must reject it
WhoisEntry__getattr__RaiseOnEmpty(e, attr) ==
    LET regex == Table(e.regex)
        found == IF attr \in DOMAIN regex THEN FindAll(regex[attr], e.text) ELSE <<>>
    IN  IF found # <<>>
        THEN Outcome(setattr(e, attr, found), "list", found, "", TRUE)
        ELSE Outcome(e, "KeyError", <<>>, "Unknown attribute: " \o attr,
                     attr \in DOMAIN regex)

RECURSIVE getattr(_, _)
RECURSIVE WhoisEntry__getattr__(_, _)

\* WhoisEntry.__getattr__(self, attr), which Python calls when the normal
\* lookup finds no such attribute
WhoisEntry__getattr__(e, attr) ==
    LET regex == Table(e.regex)
    IN  IF attr \in DOMAIN regex /\ regex[attr] # <<>>
        THEN LET r == getattr(setattr(e, attr, FindAll(regex[attr], e.text)), attr)
             IN  [r EXCEPT !.ran = TRUE]
        ELSE Outcome(e, "KeyError", <<>>, "Unknown attribute: " \o attr, FALSE)

\* getattr(self, attr): instance attributes, then class attributes, then
\* __getattr__
getattr(e, attr) ==
    IF attr \in DOMAIN e.dict THEN Outcome(e, "list", e.dict[attr], "", FALSE)
    ELSE IF attr = "domain" THEN Outcome(e, "str", <<>>, e.domain, FALSE)
    ELSE IF attr = "text" THEN Outcome(e, "str", <<>>, e.text, FALSE)
    ELSE IF attr \in OwnAttrs(e) THEN Outcome(e, "object", <<>>, attr, FALSE)
    ELSE WhoisEntry__getattr__(e, attr)

\* the order of Python's str comparison on the characters of attribute names
CharOrder == "0123456789_abcdefghijklmnopqrstuvwxyz"
Rank(c) == CHOOSE i \in 1..Len(CharOrder) : CharAt(CharOrder, i) = c

\* the length of the longest common prefix of a and b, which lies in lo..hi
RECURSIVE CommonPrefix(_, _, _, _)
CommonPrefix(a, b, lo, hi) ==
    IF lo = hi THEN lo
    ELSE LET mid == (lo + hi + 1) \div 2
         IN  IF SubSeq(a, 1, mid) = SubSeq(b, 1, mid)
             THEN CommonPrefix(a, b, mid, hi)
             ELSE CommonPrefix(a, b, lo, mid - 1)

\* a < b of Python's str: the first character that differs decides, and a
\* proper prefix is less
StrLess(a, b) ==
    LET n == IF Len(a) < Len(b) THEN Len(a) ELSE Len(b)
        d == CommonPrefix(a, b, 0, n) + 1
    IN  IF d = n + 1 THEN Len(a) < Len(b)
        ELSE Rank(CharAt(a, d)) < Rank(CharAt(b, d))

\* the names of the pairs <<number of names before it, name>>, in the order
\* of those numbers
InOrder(before) ==
    [k \in 1..Cardinality(before) |-> (CHOOSE p \in before : p[1] = k - 1)[2]]

\* sorted(names)
sorted(names) ==
    InOrder({<<Cardinality({y \in names : StrLess(y, x)}), x>> : x \in names})

\* attrs() over the attributes computed so far instead of the table: the
\* list of C12 must reject it
attrs_computed_only(e) == sorted(DOMAIN e.dict)

\* WhoisEntry.attrs(self)
attrs(e) == sorted(DOMAIN Table(e.regex))

\* repr(s) of a str: single quotes unless s holds a single and no double quote
RECURSIVE Escaped(_, _)
Escaped(s, quote) ==
    IF Len(s) = 0 THEN ""
    ELSE IF Len(s) = 1
    THEN (CASE s = quote \/ s = "\\" -> "\\" \o s
            [] s = "\t" -> "\\t"
            [] s = "\n" -> "\\n"
            [] s = "\r" -> "\\r"
            [] s = "\f" -> "\\x0c"
            [] OTHER -> s)
    ELSE Escaped(SubSeq(s, 1, Len(s) \div 2), quote)
         \o Escaped(From(s, Len(s) \div 2 + 1), quote)

repr(s) ==
    LET quote == IF Contains("'", s) /\ ~Contains("\"", s) THEN "\"" ELSE "'"
    IN  quote \o Escaped(s, quote) \o quote

\* ', '.join(repr(x) for x in list)
RECURSIVE JoinRepr(_)
JoinRepr(list) ==
    IF list = <<>> THEN ""
    ELSE repr(Head(list)) \o (IF Len(list) = 1 THEN "" ELSE ", " \o JoinRepr(Tail(list)))

\* str(list)
str(list) == "[" \o JoinRepr(list) \o "]"

\* the lines of WhoisEntry.__str__(self) for the names number lo to hi of
\* attrs(): each is '%s: %s' % (attr, str(getattr(self, attr))), and each
\* getattr may cache, so the object goes from one name to the next; no name
\* gives '\n'.join([]), the empty string
RECURSIVE StrLines(_, _, _, _)
StrLines(e, names, lo, hi) ==
    IF lo > hi THEN [entry |-> e, str |-> "", ran |-> {}]
    ELSE IF lo = hi
    THEN LET r == getattr(e, names[lo])
         IN  [entry |-> r.entry,
              str |-> names[lo] \o ": " \o str(r.list),
              ran |-> IF r.ran THEN {names[lo]} ELSE {}]
    ELSE LET mid == (lo + hi) \div 2
             head == StrLines(e, names, lo, mid)
             tail == StrLines(head.entry, names, mid + 1, hi)
         IN  [str |-> head.str \o "\n" \o tail.str,
              ran |-> head.ran \cup tail.ran,
              entry |-> tail.entry]

\* __str__ over the names in descending order: the rendering of C13 must
\* reject it
WhoisEntry__str__descending(e) ==
    StrLines(e, [k \in 1..Len(attrs(e)) |-> attrs(e)[Len(attrs(e)) - k + 1]],
             1, Len(attrs(e)))

\* WhoisEntry.__str__(self): '\n'.join of the lines
WhoisEntry__str__(e) == StrLines(e, attrs(e), 1, Len(attrs(e)))

----------------------------------------------------------------------------
(* Inputs                                                                  *)

\* the suffixes WhoisEntry.load tests, in the order of the chain
Suffixes ==
    <<".com", ".net", ".org", ".au", ".biz", ".ca", ".cn", ".co", ".cz", ".de",
      ".dk", ".fi", ".fm", ".fr", ".il", ".info", ".jp", ".kr", ".me", ".name",
      ".no", ".nu", ".pl", ".tk", ".tw", ".ru", ".sk", ".su", ".ua", ".uk", ".us">>

\* domains with no suffix of the chain
OtherDomains ==
    {"example.xyz", "example.io", "localhost", "", "com", "EXAMPLE.COM",
     "example.com.", "example.comm", "example.org.x",
     "EXAMPLE.ORG", "example.Com", "EXAMPLE.com", "X.INFO", "example.de.",
     "example.info.", "example.name.", "org", "info", "name", "de", "au", "example.com "}

\* one domain per class
RecDomains == {"example" \o Suffixes[i] : i \in 1..Len(Suffixes)} \cup {"example.xyz"}

\* the domains of the dispatcher: every suffix behind several names, among
\* them names that end in a second suffix (x.com.au, x.co.uk, x.name, ...)
Domains ==
    RecDomains \cup OtherDomains
    \cup {"x" \o Suffixes[i] : i \in 1..Len(Suffixes)}
    \cup {Suffixes[i] : i \in 1..Len(Suffixes)}
    \cup {"x.com.au", "x.co.uk", "x.org.il", "x.net.ru", "x.me.uk", "x.co.jp",
          "x.com.co", "x.info.name", "x.us.com", "x.uk.net"}

\* raw whois texts: the sentinels as the servers send them, padded, alone,
\* inside other text and in another letter case, and ordinary answers
SentinelTexts ==
    {"No whois server is known for this kind of object.",
     "\n No whois server is known for this kind of object. \r\n",
     "no whois server is known for this kind of object.",
     "x: No whois server is known for this kind of object.",
     "No match for \"EXAMPLE.COM\"",
     "\nNo match for \"EXAMPLE.NET\".\n>>> Last update of whois database <<<\n",
     "No match for domain",
     "NOT FOUND", " NOT FOUND\n", "Not Found", "Domain NOT FOUND.", "NOT FOUND NOT FOUND",
     "No Data Found", "No Data Found\n", "no data found",
     "Not found: example.biz", "Not found",
     "no matching record", "No matching record",
     "No entries found", "\r\nNo entries found\r\n", "%% No entries found for example.ua\n",
     "% No entries found in the database\n",
     "Status: free", "Error: 55000000002 Connection refused", "status: free",
     "Domain not found", "No match", "\tNo match\n", "No match.", "No match!!", "NO MATCH",
     "No information available", "No information available about x",
     "Invalid query or domain name not known in Dot TK Domain Registry",
     "\nInvalid query or domain name not known in Dot TK Domain Registry\n",
     "No found", "No found\n", "no found", ""}

TextOrg ==
    "Domain Name: EXAMPLE.ORG\nName Server: ns1.x\nName Server: ns2.x\n"
    \o "Name Server: ns3.x\nStatus: OK\nadmin@example.org\n"

TextTwice ==
    "Domain Name: A.COM\nDomain Name:B.COM\nDomain Name: A.COM\n"
    \o "domain: a.cz\nnserver: ns.a.cz \nnserver:ns.b.cz \na@x.org b@y.info a@x.org"

TextJp ==
    "[Domain Name]  EXAMPLE.JP\n[Name Server] ns1.jp\n[State] ok\n[Status] fine\n"
    \o "Domain name:\r\n  example.uk\r\nDomain Name....: x.no\nQuery: a.fm\n"

DataTexts == {TextOrg, TextTwice, TextJp, ""}

Texts == SentinelTexts \cup DataTexts

RecTexts == DataTexts \cup {"NOT FOUND in the registry\nDomain Name: X.ME\n"}

\* the records whose whole life is followed: a class without a table of its
\* own, the base class, and a class with a table
LifeDomains == {"example.com", "example.xyz", "example.cz"}

LifeTexts == {TextOrg, TextTwice}

\* the names asked again and again of such a record: names of tables, names
\* no table has, and names of the object's own attributes
AttrNames ==
    {"domain_name", "name_servers", "status", "emails",
     "nonexistent_field", "Domain_Name", "",
     "domain", "text", "regex", "attrs"}

TableNames ==
    {"WhoisEntry_regex", "WhoisOrg_regex", "WhoisAu_regex", "WhoisBiz_regex",
     "WhoisCa_regex", "WhoisCn_regex", "WhoisCz_regex", "WhoisDe_regex",
     "WhoisDk_regex", "WhoisFi_regex", "WhoisFm_regex", "WhoisFr_regex",
     "WhoisJp_regex", "WhoisKr_regex", "WhoisNo_regex", "WhoisNu_regex",
     "WhoisPl_regex", "WhoisRu_regex", "WhoisSk_regex", "WhoisTk_regex",
     "WhoisTw_regex", "WhoisName_regex", "WhoisUa_regex", "WhoisUs_regex",
     "WhoisMe_regex", "WhoisUk_regex", "WhoisIl_regex"}

\* the names asked of a record besides those of its own table: AttrNames,
\* names of other tables, and more names of the object's own
OtherNames ==
    AttrNames
    \cup {"domain_id", "registrant_name", "dnssec", "name_server", "Domain Name",
          "_regex", "load", "__class__", "__dict__", "__init__", "__getattr__", "__str__"}

\* every name some table has, and the other names
AllNames == UNION {DOMAIN Table(t) : t \in TableNames} \cup OtherNames

\* time.tzname and time.daylight of the process
TzEnvs ==
    {[std |-> "UTC", dst |-> "UTC", daylight |-> FALSE],
     [std |-> "PST", dst |-> "PDT", daylight |-> TRUE]}

DateInputs ==
    {"02-jan-2000", "2000-01-02", "2006.06.12 15:53:14", "2002.12.25", "2008-Feb-5",
     "18.05.2004 18:15:00", "21.5.1998", "24-Jul-2009 13:20:03 UTC", "2000-03-07 00:00",
     "Tue Jun 21 23:59:59 GMT 2011", "31 Dec 1999 05:00 PST", "31 Dec 1999 05:00 PDT",
     "31 Dec 1999 05:00 UTC", "2007-01-26T19:10:31", "2007-01-26t19:10:31",
     "20110209194637", "20020702", "05/14/2002", "13/09/2004", "2004/10/14",
     "2007. 04. 23.", "not-a-date", "", "   ", " 2000-01-02\n", "\t20020702 ",
     "30.02.2004", "31/04/2004", "02/30/2004", "01/02/2003", "12/12/2012", "13/13/2013",
     "0000-01-02", "29.02.2004", "29.02.2003", "200212251", "2002122512",
     "2000-01-02 extra", "2000-01-02x", "02-JAN-2000", "2-jan-2000", "2000-1-2",
     "2000-01-02 7:5", "2007.  04.\t23.", "2011020919463", "201102091946370",
     "1/2/2003", "2000-02-29", "1900-02-29", "Mon Jun 21 23:59:59 GMT 2011",
     "2000-13-01", "2000-01-32", "32-jan-2000", "2006.06.12 24:00:00",
     "2006.06.12 23:59:61", "2006.06.12  15:53:14", "9999-12-31", "20020230",
     "2002/1/5", "5.1.1998", "05.01.1998 1:2:3", "2000-01-02T", "2000",
     "24-Jul-2009 13:20:03", "24-Jul-2009 13:20:03 EST", "00-jan-2000", "2008-feb-30",
     "2010.6.1", "2007.04.23.", "2002.12.25 ", "25.12.2002", "12.25.2002",
     "2002-Dec-25", "25-Dec-2002", "2002-12-25 10:11", "2002-12-25 10:11:12",
     "2002-12-25T10:11:12Z", "02.01.2003", "2003.01.02", "02/01/2003", "2003/01/02"}

----------------------------------------------------------------------------
(* The state machine                                                       *)

\* the most attributes a record caches by single accesses (__str__ caches
\* all of them at once whatever this bound)
MaxCached == 2

NoResult ==
    [op |-> "none", arg |-> "", text |-> "", kind |-> "", list |-> <<>>, str |-> "",
     ran |-> FALSE]

Pending == [kind |-> "pending", t |-> NoTime]

\* the threads that access one record at the same time
Callers == {"A", "B"}

\* a thread in no access: pc is the statement it is at, attr the name it
\* asked for, value the list re.findall gave it, kind and list what the
\* access returned or raised
Idle == [pc |-> "idle", attr |-> "", value |-> <<>>, kind |-> "", list |-> <<>>]

NoRecord ==
    /\ entry = NoEntry
    /\ result = NoResult
    /\ nfindall = EmptyDict
    /\ first = EmptyDict
    /\ calls = [t \in Callers |-> Idle]
    /\ peer = NoEntry

NoDate ==
    /\ date_str = ""
    /\ tzname = [std |-> "UTC", dst |-> "UTC", daylight |-> FALSE]
    /\ date_result = Pending

\* entry = WhoisEntry.load(domain, text), the first thing a caller does
Load(domain, text) ==
    /\ result.op = "none"
    /\ \E r \in {load(domain, text)} :
         /\ entry' = r.entry
         /\ result' = [op |-> "load", arg |-> domain, text |-> text,
                       kind |-> IF r.raised THEN "PywhoisError" ELSE "entry",
                       list |-> <<>>, str |-> r.payload, ran |-> FALSE]
    /\ UNCHANGED <<nfindall, first, date_str, tzname, date_result, calls, peer>>

\* entry.attr with the list kept in the class, where every object of the
\* class finds it: the frame of C19 must reject it
GetShared(attr) ==
    /\ entry # NoEntry
    /\ \E r \in {getattr(entry, attr)} :
         /\ entry' = r.entry
         /\ peer' = IF peer # NoEntry /\ r.kind = "list"
                    THEN setattr(peer, attr, r.list) ELSE peer
         /\ result' = [op |-> "get", arg |-> attr, text |-> "", kind |-> r.kind,
                       list |-> r.list, str |-> r.str, ran |-> r.ran]
         /\ nfindall' = IF r.ran
                        THEN (attr :> (IF attr \in DOMAIN nfindall
                                       THEN nfindall[attr] ELSE 0) + 1) @@ nfindall
                        ELSE nfindall
         /\ first' = IF r.kind = "list" /\ attr \notin DOMAIN first
                     THEN (attr :> r.list) @@ first
                     ELSE first
    /\ UNCHANGED <<date_str, tzname, date_result, calls>>

\* getattr(entry, attr), that is entry.attr
Get(attr) ==
    /\ entry # NoEntry
    /\ \/ attr \in DOMAIN entry.dict
       \/ attr \notin DOMAIN Table(entry.regex)
       \/ Cardinality(DOMAIN entry.dict) < MaxCached
    /\ \E r \in {getattr(entry, attr)} :
         /\ entry' = r.entry
         /\ result' = [op |-> "get", arg |-> attr, text |-> "", kind |-> r.kind,
                       list |-> r.list, str |-> r.str, ran |-> r.ran]
         /\ nfindall' = IF r.ran
                        THEN [a \in DOMAIN nfindall \cup {attr} |->
                                IF a = attr
                                THEN (IF a \in DOMAIN nfindall THEN nfindall[a] ELSE 0) + 1
                                ELSE nfindall[a]]
                        ELSE nfindall
         /\ first' = IF r.kind = "list" /\ attr \notin DOMAIN first
                     THEN [a \in DOMAIN first \cup {attr} |->
                             IF a = attr THEN r.list ELSE first[a]]
                     ELSE first
    /\ UNCHANGED <<date_str, tzname, date_result, calls, peer>>

\* entry.attrs()
Attrs ==
    /\ entry # NoEntry
    /\ result' = [op |-> "attrs", arg |-> "", text |-> "", kind |-> "list",
                  list |-> attrs(entry), str |-> "", ran |-> FALSE]
    /\ UNCHANGED <<entry, nfindall, first, date_str, tzname, date_result, calls, peer>>

\* str(entry)
Str ==
    /\ entry # NoEntry
    /\ \E r \in {WhoisEntry__str__(entry)} :
         /\ entry' = r.entry
         /\ result' = [op |-> "str", arg |-> "", text |-> "", kind |-> "str",
                       list |-> <<>>, str |-> r.str, ran |-> r.ran # {}]
         /\ nfindall' = [a \in DOMAIN nfindall \cup r.ran |->
                           (IF a \in DOMAIN nfindall THEN nfindall[a] ELSE 0)
                           + (IF a \in r.ran THEN 1 ELSE 0)]
         /\ first' = [a \in DOMAIN first \cup DOMAIN r.entry.dict |->
                        IF a \in DOMAIN first THEN first[a] ELSE r.entry.dict[a]]
    /\ UNCHANGED <<date_str, tzname, date_result, calls, peer>>

\* date_result = cast_date(date_str)
CastDate ==
    /\ date_result = Pending
    /\ date_result' = cast_date(date_str, tzname)
    /\ UNCHANGED <<entry, result, nfindall, first, date_str, tzname, calls, peer>>

\* a record and the operations on it
Init == NoRecord /\ NoDate

LoadRecord == \E domain \in LifeDomains, text \in LifeTexts : Load(domain, text)

GetAny == \E attr \in AttrNames : Get(attr)

Next == LoadRecord \/ GetAny \/ Attrs \/ Str

Spec == Init /\ [][Next]_vars

\* a record of every class, the first access to a name and every kind of
\* later access: a cached name once more, a name of no table, an attribute
\* that __init__ set
LoadClass == \E domain \in RecDomains, text \in RecTexts : Load(domain, text)

FirstGet ==
    /\ result.op = "load"
    /\ entry # NoEntry
    /\ \E attr \in DOMAIN Table(entry.regex) \cup OtherNames : Get(attr)

LaterNames == {"nonexistent_field", "domain"}

LaterGet ==
    /\ result.op = "get"
    /\ \E attr \in DOMAIN entry.dict \cup LaterNames : Get(attr)

NextGet == LoadClass \/ FirstGet \/ LaterGet

SpecGet == Init /\ [][NextGet]_vars

\* the dispatcher alone, on every domain and every text
LoadAny == \E domain \in Domains, text \in Texts : Load(domain, text)

SpecLoad == Init /\ [][LoadAny]_vars

\* cast_date on every date string, under every time zone setting
InitDate ==
    /\ NoRecord
    /\ date_str \in DateInputs
    /\ tzname \in TzEnvs
    /\ date_result = Pending

SpecDate == InitDate /\ [][CastDate]_vars

\* cast_date on compact dates: years, months and days of every shape, and
\* strings of digits that are no date
DigitDates ==
    {y \o m \o d : y \in {"2002", "2000", "1900", "0001"},
                   m \in {"01", "02", "07", "10", "11", "12"},
                   d \in {"01", "02", "10", "28", "29", "30", "31"}}
    \cup {"not-a-date", "20020702", "00000101", "20021301", "20020100", "2002070",
          "200207021", "20110209194637", "99991231"}

InitDigits ==
    /\ NoRecord
    /\ date_str \in DigitDates
    /\ tzname \in TzEnvs
    /\ date_result = Pending

SpecDigits == InitDigits /\ [][CastDate]_vars

\* a record of every class rendered and listed: an access before str(),
\* str() itself, an access after it, and attrs() at every point
RenderNames == {"domain_name", "emails", "nonexistent_field"}

GetBefore ==
    /\ result.op = "load"
    /\ \E attr \in RenderNames : Get(attr)

Render ==
    /\ result.op \in {"load", "get"}
    /\ entry # NoEntry
    /\ DOMAIN entry.dict # DOMAIN Table(entry.regex)
    /\ Str

GetAfter ==
    /\ result.op = "str"
    /\ \E attr \in RenderNames : Get(attr)

ListFields ==
    /\ result.op \in {"load", "get", "str"}
    /\ Attrs

NextRender == LoadClass \/ GetBefore \/ Render \/ GetAfter \/ ListFields

SpecRender == Init /\ [][NextRender]_vars

\* a record of every class and the first access to each name of the generic
\* table WhoisEntry._regex
GetDefault ==
    /\ result.op = "load"
    /\ entry # NoEntry
    /\ \E attr \in DOMAIN WhoisEntry_regex : Get(attr)

NextDefault == LoadClass \/ GetDefault

SpecDefault == Init /\ [][NextDefault]_vars

\* two threads on one record, each statement of an access a step of its
\* own: the interpreter switches threads between any two of them

\* thread t begins entry.attr
Call(t, attr) ==
    /\ entry # NoEntry
    /\ calls[t].pc \in {"idle", "done"}
    /\ calls' = [calls EXCEPT ![t] = [Idle EXCEPT !.pc = "lookup", !.attr = attr]]
    /\ UNCHANGED <<entry, result, nfindall, first, date_str, tzname, date_result, peer>>

\* the normal lookup of calls[t].attr by a thread at pc: an attribute the
\* object has is returned, else __getattr__ is entered
Lookup(t, pc) ==
    /\ calls[t].pc = pc
    /\ LET c == calls[t]
       IN  calls' = [calls EXCEPT ![t] =
                       IF c.attr \in DOMAIN entry.dict \cup OwnAttrs(entry)
                       THEN [c EXCEPT !.pc = "done",
                                      !.kind = getattr(entry, c.attr).kind,
                                      !.list = getattr(entry, c.attr).list]
                       ELSE [c EXCEPT !.pc = "regex"]]
    /\ UNCHANGED <<entry, result, nfindall, first, date_str, tzname, date_result, peer>>

\* whois_regex = self._regex.get(attr); if whois_regex: ... else: raise
Regex(t) ==
    /\ calls[t].pc = "regex"
    /\ LET c == calls[t]
           regex == Table(entry.regex)
       IN  calls' = [calls EXCEPT ![t] =
                       IF c.attr \in DOMAIN regex /\ regex[c.attr] # <<>>
                       THEN [c EXCEPT !.pc = "findall"]
                       ELSE [c EXCEPT !.pc = "done", !.kind = "KeyError"]]
    /\ UNCHANGED <<entry, result, nfindall, first, date_str, tzname, date_result, peer>>

\* re.findall(whois_regex, self.text), the argument of setattr
Scan(t) ==
    /\ calls[t].pc = "findall"
    /\ LET c == calls[t]
       IN  /\ calls' = [calls EXCEPT ![t] =
                          [c EXCEPT !.pc = "setattr",
                                    !.value = FindAll(Table(entry.regex)[c.attr], entry.text)]]
           /\ nfindall' = (c.attr :> (IF c.attr \in DOMAIN nfindall
                                      THEN nfindall[c.attr] ELSE 0) + 1) @@ nfindall
    /\ UNCHANGED <<entry, result, first, date_str, tzname, date_result, peer>>

\* setattr(self, attr, value)
Store(t) ==
    /\ calls[t].pc = "setattr"
    /\ LET c == calls[t]
       IN  /\ entry' = setattr(entry, c.attr, c.value)
           /\ first' = IF c.attr \in DOMAIN first THEN first
                       ELSE (c.attr :> c.value) @@ first
           /\ calls' = [calls EXCEPT ![t] = [c EXCEPT !.pc = "getattr"]]
    /\ UNCHANGED <<result, nfindall, date_str, tzname, date_result, peer>>

Step(t) ==
    \/ \E attr \in {"domain_name", "name_servers", "nonexistent_field"} : Call(t, attr)
    \/ Lookup(t, "lookup")
    \/ Regex(t)
    \/ Scan(t)
    \/ Store(t)
    \/ Lookup(t, "getattr")

LoadRace == \E domain \in {"example.com", "example.cz"} : Load(domain, TextTwice)

NextRace == LoadRace \/ \E t \in Callers : Step(t)

SpecRace == Init /\ [][NextRace]_vars

\* two records of one class, loaded one after the other, and the accesses to
\* each of them in any order
LoadFirst == \E domain \in {"example.com", "example.cz", "example.org"} :
    Load(domain, TextTwice)

\* peer = WhoisEntry.load(domain, text) for a second domain of the class of
\* entry
LoadPeer ==
    /\ entry # NoEntry
    /\ peer = NoEntry
    /\ \E domain \in {"x.com", "x.cz", "x.org", "x.info"}, text \in {TextOrg, TextTwice} :
         \E r \in {load(domain, text)} :
           /\ ~r.raised
           /\ r.entry.regex = entry.regex
           /\ peer' = r.entry
           /\ result' = [op |-> "peer_load", arg |-> domain, text |-> text,
                         kind |-> "entry", list |-> <<>>, str |-> "", ran |-> FALSE]
    /\ UNCHANGED <<entry, nfindall, first, date_str, tzname, date_result, calls>>

\* getattr(peer, attr)
GetPeer ==
    /\ peer # NoEntry
    /\ \E attr \in {"domain_name", "name_servers", "nonexistent_field", "domain"} :
         \E r \in {getattr(peer, attr)} :
           /\ peer' = r.entry
           /\ result' = [op |-> "peer_get", arg |-> attr, text |-> "", kind |-> r.kind,
                         list |-> r.list, str |-> r.str, ran |-> r.ran]
    /\ UNCHANGED <<entry, nfindall, first, date_str, tzname, date_result, calls>>

GetOwn == \E attr \in {"domain_name", "name_servers", "nonexistent_field", "domain"} :
    Get(attr)

NextPeer == LoadFirst \/ LoadPeer \/ GetOwn \/ GetPeer \/ Attrs

SpecPeer == Init /\ [][NextPeer]_vars

\* cast_date on the strings more than one format could read: two short
\* numbers and a year between slashes or dots, in either order, and dates
\* with a time behind them
TieDates ==
    {a \o "/" \o b \o "/" \o y :
       a \in {"1", "01", "2", "9", "10", "12", "13", "29", "31", "00", "32"},
       b \in {"1", "01", "02", "9", "10", "12", "13", "30", "31", "0", "32"},
       y \in {"2003", "2004", "0000", "0001"}}
    \cup {"2004/10/14", "2004/1/5", "2004/13/01", "2004/02/30", "0000/01/02",
          "04/10/14", "2004/10/2004", "1/2/3/2004", "01/02/20045", "01/02/204",
          "2002.12.25", "25.12.2002", "12.11.2002", "2002.11.12", "02.01.2003",
          "2003.01.02", "31.04.2003", "2003.04.31", "12.25.2002", "1.2.0000",
          "2002.12.25 10:11:12", "25.12.2002 10:11:12", "12.11.2002 1:2:3",
          "2000-01-02", "2000-01-02 10:11", "2000-01-02T10:11:12", "02-jan-2000",
          "02-jan-2000 10:11:12 UTC", "20110209194637", "20020702",
          "01/02/2003 10:11", "2002.12.25 10:11", "2000-01-02 10:11:12"}

InitTie ==
    /\ NoRecord
    /\ date_str \in TieDates
    /\ tzname \in TzEnvs
    /\ date_result = Pending

SpecTie == InitTie /\ [][CastDate]_vars

----------------------------------------------------------------------------
(* Properties                                                              *)

\* d[-len(suffix):] == suffix for a domain at least as long as the suffix
EndsWith(d, suffix) ==
    /\ Len(d) >= Len(suffix)
    /\ SubSeq(d, Len(d) - Len(suffix) + 1, Len(d)) = suffix

\* s is t with nothing but whitespace before and after it
TrimsTo(s, t) ==
    \E a \in 0..(Len(s) - Len(t)) :
      /\ SubSeq(s, a + 1, a + Len(t)) = t
      /\ \A k \in 1..a : CharAt(s, k) \in SpaceChars
      /\ \A k \in (a + Len(t) + 1)..Len(s) : CharAt(s, k) \in SpaceChars

\* s without its leading and trailing whitespace
TrimOf(s) ==
    LET parts == {SubSeq(s, p[1], p[2]) :
                    p \in {q \in (1..Len(s)) \X (1..Len(s)) : q[1] <= q[2]}} \cup {""}
    IN  CHOOSE t \in parts :
          /\ TrimsTo(s, t)
          /\ t = "" \/ (CharAt(t, 1) \notin SpaceChars /\ CharAt(t, Len(t)) \notin SpaceChars)

Least(S) == CHOOSE i \in S : \A j \in S : i <= j

GlobalSentinel == "No whois server is known for this kind of object."

\* the suffix table: for each supported suffix the class of its records and
\* the table of patterns they are bound to
SuffixTable ==
    <<[suffix |-> ".com", cls |-> "WhoisCom", regex |-> "WhoisEntry_regex"],
      [suffix |-> ".net", cls |-> "WhoisNet", regex |-> "WhoisEntry_regex"],
      [suffix |-> ".org", cls |-> "WhoisOrg", regex |-> "WhoisOrg_regex"],
      [suffix |-> ".au", cls |-> "WhoisAu", regex |-> "WhoisAu_regex"],
      [suffix |-> ".biz", cls |-> "WhoisBiz", regex |-> "WhoisBiz_regex"],
      [suffix |-> ".ca", cls |-> "WhoisCa", regex |-> "WhoisCa_regex"],
      [suffix |-> ".cn", cls |-> "WhoisCn", regex |-> "WhoisCn_regex"],
      [suffix |-> ".co", cls |-> "WhoisCo", regex |-> "WhoisBiz_regex"],
      [suffix |-> ".cz", cls |-> "WhoisCz", regex |-> "WhoisCz_regex"],
      [suffix |-> ".de", cls |-> "WhoisDe", regex |-> "WhoisDe_regex"],
      [suffix |-> ".dk", cls |-> "WhoisDk", regex |-> "WhoisDk_regex"],
      [suffix |-> ".fi", cls |-> "WhoisFi", regex |-> "WhoisFi_regex"],
      [suffix |-> ".fm", cls |-> "WhoisFm", regex |-> "WhoisFm_regex"],
      [suffix |-> ".fr", cls |-> "WhoisFr", regex |-> "WhoisFr_regex"],
      [suffix |-> ".il", cls |-> "WhoisIl", regex |-> "WhoisIl_regex"],
      [suffix |-> ".info", cls |-> "WhoisInfo", regex |-> "WhoisOrg_regex"],
      [suffix |-> ".jp", cls |-> "WhoisJp", regex |-> "WhoisJp_regex"],
      [suffix |-> ".kr", cls |-> "WhoisKr", regex |-> "WhoisKr_regex"],
      [suffix |-> ".me", cls |-> "WhoisMe", regex |-> "WhoisMe_regex"],
      [suffix |-> ".name", cls |-> "WhoisName", regex |-> "WhoisName_regex"],
      [suffix |-> ".no", cls |-> "WhoisNo", regex |-> "WhoisNo_regex"],
      [suffix |-> ".nu", cls |-> "WhoisNu", regex |-> "WhoisNu_regex"],
      [suffix |-> ".pl", cls |-> "WhoisPl", regex |-> "WhoisPl_regex"],
      [suffix |-> ".tk", cls |-> "WhoisTk", regex |-> "WhoisTk_regex"],
      [suffix |-> ".tw", cls |-> "WhoisTw", regex |-> "WhoisTw_regex"],
      [suffix |-> ".ru", cls |-> "WhoisRu", regex |-> "WhoisRu_regex"],
      [suffix |-> ".sk", cls |-> "WhoisSk", regex |-> "WhoisSk_regex"],
      [suffix |-> ".su", cls |-> "WhoisSu", regex |-> "WhoisRu_regex"],
      [suffix |-> ".ua", cls |-> "WhoisUa", regex |-> "WhoisUa_regex"],
      [suffix |-> ".uk", cls |-> "WhoisUk", regex |-> "WhoisUk_regex"],
      [suffix |-> ".us", cls |-> "WhoisUs", regex |-> "WhoisUs_regex"]>>

\* the suffixes with a rule of the kind "contains", each with its sentinels
ContainsRules ==
    <<[suffix |-> ".com", sentinels |-> {"No match for \""}],
      [suffix |-> ".net", sentinels |-> {"No match for \""}],
      [suffix |-> ".biz", sentinels |-> {"Not found:"}],
      [suffix |-> ".co", sentinels |-> {"Not found:"}],
      [suffix |-> ".us", sentinels |-> {"Not found:"}],
      [suffix |-> ".uk", sentinels |-> {"Not found:"}],
      [suffix |-> ".me", sentinels |-> {"NOT FOUND"}],
      [suffix |-> ".cz", sentinels |-> {"No entries found"}],
      [suffix |-> ".dk", sentinels |-> {"No entries found"}],
      [suffix |-> ".fr", sentinels |-> {"No entries found"}],
      [suffix |-> ".cn", sentinels |-> {"no matching record"}],
      [suffix |-> ".de", sentinels |-> {"Status: free", "Error"}],
      [suffix |-> ".fi", sentinels |-> {"Domain not found"}],
      [suffix |-> ".nu", sentinels |-> {"NO MATCH"}],
      [suffix |-> ".sk", sentinels |-> {"Not found"}],
      [suffix |-> ".name", sentinels |-> {"No match."}],
      [suffix |-> ".ua", sentinels |-> {"No entries found for"}]>>

\* the suffixes with a rule of the kind "exact", each with its sentinel
ExactRules ==
    <<[suffix |-> ".org", sentinel |-> "NOT FOUND"],
      [suffix |-> ".info", sentinel |-> "NOT FOUND"],
      [suffix |-> ".au", sentinel |-> "No Data Found"],
      [suffix |-> ".jp", sentinel |-> "No match"],
      [suffix |-> ".kr", sentinel |-> "No match"],
      [suffix |-> ".no", sentinel |-> "No match"],
      [suffix |-> ".pl", sentinel |-> "No information available"],
      [suffix |-> ".ru", sentinel |-> "No entries found"],
      [suffix |-> ".su", sentinel |-> "No entries found"],
      [suffix |-> ".il", sentinel |-> "No entries found"],
      [suffix |-> ".tk", sentinel |->
         "Invalid query or domain name not known in Dot TK Domain Registry"],
      [suffix |-> ".tw", sentinel |-> "No found"]>>

\* the field names of the base class's table, as attrs() lists them
GenericNames ==
    <<"creation_date", "domain_name", "emails", "expiration_date", "name_servers",
      "referral_url", "registrar", "status", "updated_date", "whois_server">>

\* the matches a left-to-right scan takes: a match starts at s exactly when
\* no match taken before s reaches beyond s (an empty match reaches one
\* character further)
Occurrences(items, text) ==
    LET starts == MatchStarts(items, text)
        Resume(s) == LET e == MatchAt(items, text, s, <<>>).e
                     IN  IF e = s THEN s + 1 ELSE e
    IN  CHOOSE X \in SUBSET starts :
          \A s \in starts : s \in X <=> \A x \in X : x < s => Resume(x) <= s

\* the element re.findall gives for the match at s: group 1 when the pattern
\* has a group, else the whole match
ElementAt(items, text, s) ==
    LET m == MatchAt(items, text, s, <<>>)
    IN  IF HasGroup(items) THEN Group(m, text, "1") ELSE SubSeq(text, s, m.e - 1)

\* C1. Memoization: the pattern of a field is applied to the text at most
\* once in the life of a record, whatever gets, attrs() and str() come
\* between; every get of a field of the table returns the list that the
\* first access to the field returned, and that list stays the cached one.
C1_Memoization ==
    /\ \A a \in DOMAIN nfindall : nfindall[a] <= 1
    /\ \A a \in DOMAIN first : a \in DOMAIN entry.dict /\ entry.dict[a] = first[a]
    /\ (result.op = "get" /\ result.arg \in DOMAIN Table(entry.regex))
         => /\ result.kind = "list"
            /\ result.arg \in DOMAIN first
            /\ result.list = first[result.arg]
            /\ result.arg \in DOMAIN nfindall /\ nfindall[result.arg] = 1

\* a get answered from the cache, after str() has computed every field
C1_Witness ==
    /\ result.op = "get"
    /\ ~result.ran
    /\ result.kind = "list"
    /\ result.list # <<>>
    /\ result.arg \in DOMAIN nfindall /\ nfindall[result.arg] = 1
    /\ DOMAIN entry.dict = DOMAIN Table(entry.regex)

\* C2 as stated: every name that is not a key of the record's table raises
\* KeyError.
C2_EveryOtherNameFails ==
    (result.op = "get" /\ result.arg \notin DOMAIN Table(entry.regex))
      => result.kind = "KeyError"

\* C2. Every name that is neither a key of the record's table nor an
\* attribute the object has of its own (domain, text, _regex, regex, the
\* methods, __class__, __dict__) raises KeyError, returns nothing and caches
\* nothing, before and after other fields were accessed; the object's own
\* attributes are returned instead, domain and text as the strings given to
\* load.
C2_UnknownField ==
    (result.op = "get" /\ result.arg \notin DOMAIN Table(entry.regex))
      => IF result.arg \in OwnAttrs(entry)
         THEN /\ result.kind \in {"str", "object"}
              /\ result.arg = "domain" => result.kind = "str" /\ result.str = entry.domain
              /\ result.arg = "text" => result.kind = "str" /\ result.str = entry.text
         ELSE /\ result.kind = "KeyError"
              /\ result.list = <<>>
              /\ ~result.ran
              /\ result.arg \notin DOMAIN entry.dict

\* a KeyError for an unknown name, raised after another field was cached
C2_Witness ==
    /\ result.op = "get"
    /\ result.kind = "KeyError"
    /\ result.arg = "nonexistent_field"
    /\ entry.dict # EmptyDict

\* C3. A get of a field of the table never raises: it returns a list, and
\* the list is empty exactly when the pattern matches nowhere in the text;
\* KeyError is raised for no field of the table.
C3_EmptyNotError ==
    result.op = "get"
      => /\ result.arg \in DOMAIN Table(entry.regex)
              => /\ result.kind = "list"
                 /\ result.list = <<>>
                      <=> MatchStarts(Table(entry.regex)[result.arg], entry.text) = {}
         /\ result.kind = "KeyError" => result.arg \notin DOMAIN Table(entry.regex)

\* the first get of a field whose pattern matches nowhere in a text that is
\* not empty
C3_Witness ==
    /\ result.op = "get"
    /\ result.ran
    /\ result.arg \in DOMAIN Table(entry.regex)
    /\ result.kind = "list"
    /\ result.list = <<>>
    /\ entry.text # ""

\* C4. Dispatch: for a domain that ends with a supported suffix and a text
\* that triggers no "not found" check, load returns an object of the class of
\* that suffix, never of the base class, bound to the table of that suffix
\* (.info to the table of .org, .co to that of .biz, .su to that of .ru);
\* no suffix is shadowed by an earlier test of the chain.
C4_Dispatch ==
    result.op = "load"
      => /\ \A i \in 1..Len(SuffixTable) :
              (/\ EndsWith(result.arg, SuffixTable[i].suffix)
               /\ ~TrimsTo(result.text, GlobalSentinel)
               /\ ~RaisesNotFound(SuffixTable[i].cls, result.text))
                => /\ result.kind = "entry"
                   /\ entry.cls = SuffixTable[i].cls
                   /\ entry.cls # "WhoisEntry"
                   /\ entry.regex = SuffixTable[i].regex
                   /\ entry.domain = result.arg
                   /\ entry.text = result.text
         /\ (result.kind = "entry" /\ result.arg = "x.co") => entry.cls = "WhoisCo"
         /\ (result.kind = "entry" /\ result.arg = "x.name") => entry.cls = "WhoisName"
         /\ (result.kind = "entry" /\ result.arg = "x.com.au") => entry.cls = "WhoisAu"
         /\ (result.kind = "entry" /\ result.arg = "example.cz")
              => entry.regex = "WhoisCz_regex"

\* x.com.au dispatched to the class of .au
C4_Witness ==
    /\ result.op = "load"
    /\ result.kind = "entry"
    /\ result.arg = "x.com.au"
    /\ entry.cls = "WhoisAu"
    /\ entry.regex = "WhoisAu_regex"

\* C5. "Contains" rules: for a domain of a suffix with such a rule and a
\* text in which a sentinel of the rule occurs anywhere, load raises
\* PywhoisError with the text exactly as given, and returns no object.
C5_ContainsRule ==
    result.op = "load"
      => \A i \in 1..Len(ContainsRules) :
           (/\ EndsWith(result.arg, ContainsRules[i].suffix)
            /\ \E sentinel \in ContainsRules[i].sentinels :
                 Contains(sentinel, result.text))
             => /\ result.kind = "PywhoisError"
                /\ result.str = result.text
                /\ entry = NoEntry

\* a .com domain and a text with the sentinel between other lines
C5_Witness ==
    /\ result.op = "load"
    /\ result.kind = "PywhoisError"
    /\ EndsWith(result.arg, ".com")
    /\ result.text = "\nNo match for \"EXAMPLE.NET\".\n>>> Last update of whois database <<<\n"
    /\ result.str = result.text

\* C6. "Exact" rules: for a domain of a suffix with such a rule, load raises
\* PywhoisError exactly when the text without its leading and trailing
\* whitespace equals, letter case included, the sentinel of the rule or the
\* global sentinel; in every other case it returns an object, and for
\* example.org with a text that starts with the line
\* "Domain Name: EXAMPLE.ORG" the field domain_name is ["EXAMPLE.ORG"].
C6_ExactRule ==
    result.op = "load"
      => /\ \A i \in 1..Len(ExactRules) :
              EndsWith(result.arg, ExactRules[i].suffix)
                => /\ result.kind = "PywhoisError"
                        <=> \/ TrimsTo(result.text, ExactRules[i].sentinel)
                            \/ TrimsTo(result.text, GlobalSentinel)
                   /\ result.kind # "PywhoisError"
                        => result.kind = "entry" /\ entry.text = result.text
         /\ (result.arg = "example.org" /\ result.text = TextOrg)
              => /\ result.kind = "entry"
                 /\ getattr(entry, "domain_name").kind = "list"
                 /\ getattr(entry, "domain_name").list = <<"EXAMPLE.ORG">>

\* a .org domain and a text that holds the sentinel among other characters
C6_Witness ==
    /\ result.op = "load"
    /\ result.kind = "entry"
    /\ result.arg = "example.org"
    /\ result.text = "Domain NOT FOUND."

\* C7. Global sentinel: for every domain, a text that without its leading
\* and trailing whitespace equals the global sentinel makes load raise
\* PywhoisError with the text as given; no object of any class is made.
C7_GlobalSentinel ==
    (result.op = "load" /\ TrimsTo(result.text, GlobalSentinel))
      => /\ result.kind = "PywhoisError"
         /\ result.str = result.text
         /\ entry = NoEntry

\* the padded global sentinel for a domain of no supported suffix
C7_Witness ==
    /\ result.op = "load"
    /\ result.kind = "PywhoisError"
    /\ result.arg = "example.xyz"
    /\ result.text = "\n No whois server is known for this kind of object. \r\n"

\* C8. No rule, no failure: for a domain of no supported suffix and for a
\* .ca or .fm domain, load returns an object for every text that is not the
\* global sentinel; the object for a domain of no supported suffix has
\* exactly the ten generic fields.
C8_AlwaysFound ==
    result.op = "load"
      => LET unmatched == \A i \in 1..Len(SuffixTable) :
                            ~EndsWith(result.arg, SuffixTable[i].suffix)
         IN  /\ (/\ unmatched \/ EndsWith(result.arg, ".ca") \/ EndsWith(result.arg, ".fm")
                 /\ ~TrimsTo(result.text, GlobalSentinel))
                  => /\ result.kind = "entry"
                     /\ entry.domain = result.arg
                     /\ entry.text = result.text
             /\ (unmatched /\ result.kind = "entry")
                  => /\ attrs(entry) = GenericNames
                     /\ Len(GenericNames) = 10
                     /\ \A k \in 1..Len(GenericNames) :
                          getattr(entry, GenericNames[k]).kind = "list"

\* a domain of no supported suffix and a text with the sentinel of .com
C8_Witness ==
    /\ result.op = "load"
    /\ result.kind = "entry"
    /\ result.arg = "example.xyz"
    /\ result.text = "No match for \"EXAMPLE.COM\""
    /\ entry.cls = "WhoisEntry"

\* C9. All matches: a get of a field of the table returns one element for
\* each match that a left-to-right scan of the whole text takes, in the
\* order of the text, neither deduplicated nor cut short; three
\* "Name Server:" lines give three names and a label that occurs three times
\* gives three elements.
C9_AllMatches ==
    (result.op = "get" /\ result.arg \in DOMAIN Table(entry.regex))
      => LET items == Table(entry.regex)[result.arg]
             X == Occurrences(items, entry.text)
             at(k) == CHOOSE s \in X : Cardinality({x \in X : x < s}) = k - 1
         IN  /\ result.kind = "list"
             /\ Len(result.list) = Cardinality(X)
             /\ \A k \in 1..Len(result.list) :
                  result.list[k] = ElementAt(items, entry.text, at(k))
             /\ (/\ entry.regex = "WhoisEntry_regex"
                 /\ entry.text = TextOrg
                 /\ result.arg = "name_servers")
                  => result.list = <<"ns1.x", "ns2.x", "ns3.x">>
             /\ (/\ entry.regex = "WhoisEntry_regex"
                 /\ entry.text = TextTwice
                 /\ result.arg = "domain_name")
                  => result.list = <<"A.COM", "B.COM", "A.COM">>

\* the three name servers of TextOrg, in the order of the text
C9_Witness ==
    /\ result.op = "get"
    /\ result.arg = "name_servers"
    /\ entry.text = TextOrg
    /\ result.list = <<"ns1.x", "ns2.x", "ns3.x">>

\* C10. cast_date never raises; it returns what strptime gives for the
\* string without its leading and trailing whitespace under the first of the
\* 18 formats, in the order of the list, that strptime accepts for the whole
\* of that string, and None when strptime accepts it under no format.
C10_CastDate ==
    date_result # Pending
      => LET t == TrimOf(date_str)
             accepted == {i \in 1..Len(known_formats) :
                            StrpTime(t, known_formats[i], tzname).ok}
         IN  /\ Len(known_formats) = 18
             /\ date_result.kind \in {"struct_time", "None"}
             /\ date_result = None <=> accepted = {}
             /\ accepted # {}
                  => date_result =
                       [kind |-> "struct_time",
                        t |-> StrpTime(t, known_formats[Least(accepted)], tzname).t]
             /\ date_str \in {"2000-01-02x", "2000-01-02 extra", "not-a-date", "   "}
                  => date_result = None
             /\ date_str = " 2000-01-02\n"
                  => /\ date_result.kind = "struct_time"
                     /\ date_result.t.tm_year = 2000
                     /\ date_result.t.tm_mon = 1
                     /\ date_result.t.tm_mday = 2
             /\ date_str = "01/02/2003"
                  => date_result.t.tm_mon = 1 /\ date_result.t.tm_mday = 2
             /\ date_str = "13/09/2004"
                  => date_result.t.tm_mon = 9 /\ date_result.t.tm_mday = 13

\* a date between whitespace that the first format refuses and a later one
\* accepts
C10_Witness ==
    /\ date_result # Pending
    /\ date_result.kind = "struct_time"
    /\ date_str # TrimOf(date_str)
    /\ ~StrpTime(TrimOf(date_str), known_formats[1], tzname).ok

\* whether year, month and day name a day of the calendar
CalendarDate(year, month, day) ==
    /\ year \in 1..9999
    /\ month \in 1..12
    /\ day >= 1
    /\ day <= (CASE month \in {1, 3, 5, 7, 8, 10, 12} -> 31
                [] month \in {4, 6, 9, 11} -> 30
                [] OTHER -> IF year % 4 = 0 /\ (year % 100 # 0 \/ year % 400 = 0)
                            THEN 29 ELSE 28)

AllDigits(s) == \A k \in 1..Len(s) : CharAt(s, k) \in DigitChars

\* C11. Compact dates: for a string of eight digits YYYYMMDD that names a
\* day of the calendar, cast_date returns that year, month and day; none of
\* the 13 formats before "%Y%m%d", the 14-digit format just before it among
\* them, accepts such a string; cast_date("not-a-date") is None.
C11_CompactDates ==
    date_result # Pending
      => /\ known_formats[13] = "%Y%m%d%H%M%S" /\ known_formats[14] = "%Y%m%d"
         /\ (/\ Len(date_str) = 8
             /\ AllDigits(date_str)
             /\ CalendarDate(DigitsToInt(SubSeq(date_str, 1, 4)),
                             DigitsToInt(SubSeq(date_str, 5, 6)),
                             DigitsToInt(SubSeq(date_str, 7, 8))))
              => /\ date_result.kind = "struct_time"
                 /\ date_result.t.tm_year = DigitsToInt(SubSeq(date_str, 1, 4))
                 /\ date_result.t.tm_mon = DigitsToInt(SubSeq(date_str, 5, 6))
                 /\ date_result.t.tm_mday = DigitsToInt(SubSeq(date_str, 7, 8))
                 /\ \A i \in 1..13 : ~StrpTime(date_str, known_formats[i], tzname).ok
         /\ date_str = "20020702"
              => /\ date_result.t.tm_year = 2002
                 /\ date_result.t.tm_mon = 7
                 /\ date_result.t.tm_mday = 2
         /\ date_str = "not-a-date" => date_result = None

\* the 29th of February of a leap year, written with eight digits
C11_Witness ==
    /\ date_result.kind = "struct_time"
    /\ date_str = "20000229"
    /\ date_result.t.tm_mon = 2
    /\ date_result.t.tm_mday = 29

\* a precedes b in the order of Python's str comparison
Precedes(a, b) ==
    \E k \in 1..(Len(b)) :
      /\ k <= Len(a) + 1
      /\ SubSeq(a, 1, k - 1) = SubSeq(b, 1, k - 1)
      /\ k = Len(a) + 1 \/ Rank(CharAt(a, k)) < Rank(CharAt(b, k))

\* C12. attrs(), in whatever state of the record it is called, returns every
\* key of the record's table exactly once, in ascending order, whichever
\* attributes were computed before.
C12_ListFields ==
    result.op = "attrs"
      => LET keys == DOMAIN Table(entry.regex)
             n == Len(result.list)
         IN  /\ result.kind = "list"
             /\ n = Cardinality(keys)
             /\ {result.list[k] : k \in 1..n} = keys
             /\ \A k \in 1..(n - 1) : Precedes(result.list[k], result.list[k + 1])
             /\ entry.regex = "WhoisEntry_regex" => result.list = GenericNames
             /\ entry.regex = "WhoisCz_regex"
                  => result.list = <<"creation_date", "domain_name", "expiration_date",
                                     "name_servers", "updated_date">>

\* attrs() on a .cz record with some attributes computed and others not
C12_Witness ==
    /\ result.op = "attrs"
    /\ entry.regex = "WhoisCz_regex"
    /\ entry.dict # EmptyDict
    /\ DOMAIN entry.dict # DOMAIN Table(entry.regex)
    /\ Len(result.list) = 5

\* the lines number lo to hi, with a newline between one and the next
RECURSIVE JoinLines(_, _, _)
JoinLines(lines, lo, hi) ==
    IF lo > hi THEN ""
    ELSE IF lo = hi THEN lines[lo]
    ELSE LET mid == (lo + hi) \div 2
         IN  JoinLines(lines, lo, mid) \o "\n" \o JoinLines(lines, mid + 1, hi)

\* C13. str() of a record of any class raises no KeyError and gives one line
\* "name: list" for each name of attrs(), in the order of attrs(); the list
\* shown for a name is the list that a get of the name returned before and
\* returns after, which is every match of its pattern.
C13_Rendering ==
    /\ result.op = "str"
         => LET names == attrs(entry)
                keys == DOMAIN Table(entry.regex)
                lines == [k \in 1..Len(names) |->
                            names[k] \o ": " \o str(entry.dict[names[k]])]
            IN  /\ result.kind = "str"
                /\ DOMAIN entry.dict = keys
                /\ result.str = JoinLines(lines, 1, Len(lines))
                /\ Cardinality({i \in 1..Len(result.str) : CharAt(result.str, i) = "\n"})
                     = Len(names) - 1
                /\ \A a \in keys :
                     /\ a \in DOMAIN first /\ entry.dict[a] = first[a]
                     /\ entry.dict[a] = FindAll(Table(entry.regex)[a], entry.text)
                /\ (entry.regex = "WhoisCz_regex" /\ entry.text = TextTwice)
                     => result.str =
                          "creation_date: []\ndomain_name: ['a.cz']\nexpiration_date: []\n"
                          \o "name_servers: ['ns.a.cz ', 'ns.b.cz ']\nupdated_date: []"
    /\ (result.op = "get" /\ result.kind = "list")
         => result.arg \in DOMAIN first /\ result.list = first[result.arg]

\* the rendering of a .us record: it scanned the text, and no pattern twice
C13_Witness ==
    /\ result.op = "str"
    /\ result.ran
    /\ entry.regex = "WhoisUs_regex"
    /\ entry.text = TextTwice
    /\ \A a \in DOMAIN nfindall : nfindall[a] = 1
    /\ Len(result.str) > 64

\* the sentinel stands somewhere in the text
Occurs(sentinel, text) ==
    \E a \in 0..(Len(text) - Len(sentinel)) :
      SubSeq(text, a + 1, a + Len(sentinel)) = sentinel

\* whether a rule of the kind, with the sentinel, is triggered by the text
Applies(kind, sentinel, text) ==
    \/ kind = "exact" /\ TrimsTo(text, sentinel)
    \/ kind = "contains" /\ Occurs(sentinel, text)

\* every piece of s
Substrings(s) ==
    {SubSeq(s, p[1], p[2]) : p \in {q \in (1..Len(s)) \X (1..Len(s)) : q[1] <= q[2]}}

\* the rule of a suffix: its kind and its sentinels
RuleOf(suffix) ==
    LET c == {i \in 1..Len(ContainsRules) : ContainsRules[i].suffix = suffix}
        x == {i \in 1..Len(ExactRules) : ExactRules[i].suffix = suffix}
    IN  [kind |-> IF c # {} THEN "contains" ELSE IF x # {} THEN "exact" ELSE "none",
         sentinels |-> UNION {ContainsRules[i].sentinels : i \in c}
                       \cup {ExactRules[i].sentinel : i \in x},
         rules |-> Cardinality(c) + Cardinality(x)]

\* C14 as stated: when load has raised the error of a class, one literal
\* sentinel, with one kind of test, decides for every text whether load
\* raises for that domain.
C14_OneSentinel ==
    (/\ result.op = "load"
     /\ result.kind = "PywhoisError"
     /\ ~TrimsTo(result.text, GlobalSentinel))
      => \E kind \in {"exact", "contains"}, sentinel \in Substrings(result.text) :
           \A text \in Texts :
             load(result.arg, text).raised
               <=> TrimsTo(text, GlobalSentinel) \/ Applies(kind, sentinel, text)

\* C14. Every suffix has at most one rule, of one kind; the rule has one
\* literal sentinel, except the rule of .de, which has two ("Status: free"
\* and "Error") and is triggered by either; .ca and .fm have no rule. load
\* raises exactly when the text is the global sentinel or triggers the rule
\* of the suffix.
C14_OneRule ==
    result.op = "load"
      => \A i \in 1..Len(SuffixTable) :
           EndsWith(result.arg, SuffixTable[i].suffix)
             => LET suffix == SuffixTable[i].suffix
                    rule == RuleOf(suffix)
                IN  /\ result.kind = "PywhoisError"
                         <=> \/ TrimsTo(result.text, GlobalSentinel)
                             \/ \E sentinel \in rule.sentinels :
                                  Applies(rule.kind, sentinel, result.text)
                    /\ rule.rules <= 1
                    /\ rule.rules = 0 <=> suffix \in {".ca", ".fm"}
                    /\ Cardinality(rule.sentinels) =
                         IF suffix = ".de" THEN 2 ELSE rule.rules
                    /\ suffix = ".de"
                         => /\ rule = [kind |-> "contains",
                                       sentinels |-> {"Status: free", "Error"},
                                       rules |-> 1]
                            /\ Occurs("Error", result.text)
                                 => result.kind = "PywhoisError"

\* a .de domain and a text with the second sentinel of .de and not the first
C14_Witness ==
    /\ result.op = "load"
    /\ result.kind = "PywhoisError"
    /\ EndsWith(result.arg, ".de")
    /\ result.text = "Error: 55000000002 Connection refused"
    /\ ~Occurs("Status: free", result.text)
    /\ entry = NoEntry

\* the generic names that the table of a class lacks
MissingGeneric ==
    <<
      [regex |-> "WhoisOrg_regex", names |-> {"emails", "referral_url", "whois_server"}],
      [regex |-> "WhoisAu_regex", names |-> {"creation_date", "emails", "expiration_date", "referral_url", "whois_server"}],
      [regex |-> "WhoisBiz_regex", names |-> {"emails", "referral_url", "whois_server"}],
      [regex |-> "WhoisCa_regex", names |-> {"referral_url", "registrar", "whois_server"}],
      [regex |-> "WhoisCn_regex", names |-> {"referral_url", "updated_date", "whois_server"}],
      [regex |-> "WhoisCz_regex", names |-> {"emails", "referral_url", "registrar", "status", "whois_server"}],
      [regex |-> "WhoisDe_regex", names |-> {"creation_date", "expiration_date", "referral_url", "registrar", "whois_server"}],
      [regex |-> "WhoisDk_regex", names |-> {"emails", "referral_url", "registrar", "updated_date", "whois_server"}],
      [regex |-> "WhoisFi_regex", names |-> {"emails", "referral_url", "registrar", "updated_date", "whois_server"}],
      [regex |-> "WhoisFm_regex", names |-> {"referral_url", "whois_server"}],
      [regex |-> "WhoisFr_regex", names |-> {"expiration_date", "referral_url", "whois_server"}],
      [regex |-> "WhoisJp_regex", names |-> {"referral_url", "whois_server"}],
      [regex |-> "WhoisKr_regex", names |-> {"referral_url", "registrar", "whois_server"}],
      [regex |-> "WhoisNo_regex", names |-> {"expiration_date", "name_servers", "referral_url", "registrar", "status", "whois_server"}],
      [regex |-> "WhoisNu_regex", names |-> {"referral_url", "registrar", "whois_server"}],
      [regex |-> "WhoisPl_regex", names |-> {"expiration_date", "referral_url", "registrar", "status", "whois_server"}],
      [regex |-> "WhoisRu_regex", names |-> {"referral_url", "updated_date", "whois_server"}],
      [regex |-> "WhoisSk_regex", names |-> {"creation_date", "referral_url", "registrar", "whois_server"}],
      [regex |-> "WhoisTk_regex", names |-> {"referral_url", "updated_date", "whois_server"}],
      [regex |-> "WhoisTw_regex", names |-> {"referral_url", "status", "updated_date", "whois_server"}],
      [regex |-> "WhoisName_regex", names |-> {"emails", "referral_url", "whois_server"}],
      [regex |-> "WhoisUa_regex", names |-> {"referral_url", "registrar", "whois_server"}],
      [regex |-> "WhoisUs_regex", names |-> {"emails", "referral_url", "whois_server"}],
      [regex |-> "WhoisMe_regex", names |-> {"emails", "referral_url", "whois_server"}],
      [regex |-> "WhoisUk_regex", names |-> {"emails", "referral_url", "whois_server"}],
      [regex |-> "WhoisIl_regex", names |-> {"referral_url", "updated_date", "whois_server"}]
    >>

\* C15 as stated: the names of the table of every record include the ten
\* generic names, and a get of a generic name never raises KeyError.
C15_Superset ==
    /\ (result.op \in {"load", "get"} /\ entry # NoEntry)
         => DOMAIN WhoisEntry_regex \subseteq DOMAIN Table(entry.regex)
    /\ (result.op = "get" /\ result.arg \in DOMAIN WhoisEntry_regex)
         => result.kind # "KeyError"

\* C15. The table of a class replaces the generic table, it is not added to
\* it: only the records of .com, .net and of no supported suffix have the
\* ten generic names; every table of a class lacks referral_url and
\* whois_server and the other names MissingGeneric lists, and has
\* domain_name; a get of a generic name raises KeyError exactly when the
\* table of the record lacks the name, and returns a list otherwise.
C15_OwnTable ==
    (result.op \in {"load", "get"} /\ entry # NoEntry)
      => LET keys == DOMAIN Table(entry.regex)
             generic == {GenericNames[k] : k \in 1..Len(GenericNames)}
         IN  /\ generic = DOMAIN WhoisEntry_regex
             /\ entry.regex = "WhoisEntry_regex"
                  <=> entry.cls \in {"WhoisEntry", "WhoisCom", "WhoisNet"}
             /\ entry.regex # "WhoisEntry_regex"
                  => /\ \E i \in 1..Len(MissingGeneric) :
                          /\ MissingGeneric[i].regex = entry.regex
                          /\ generic \ keys = MissingGeneric[i].names
                     /\ {"referral_url", "whois_server"} \subseteq generic \ keys
                     /\ "domain_name" \in keys
             /\ (result.op = "get" /\ result.arg \in generic)
                  => /\ result.kind = "KeyError" <=> result.arg \notin keys
                     /\ result.kind # "KeyError" => result.kind = "list"
                     /\ (entry.regex = "WhoisCz_regex" /\ result.arg = "registrar")
                          => result.kind = "KeyError"

\* the generic name whois_server asked of a .cz record
C15_Witness ==
    /\ result.op = "get"
    /\ result.arg = "whois_server"
    /\ result.kind = "KeyError"
    /\ entry.cls = "WhoisCz"
    /\ entry.regex = "WhoisCz_regex"

\* C16. Two threads that access the same field of one record with no lock:
\* whatever the order of their lookups, scans, cache writes and cache reads,
\* each access returns the list of all matches of the field's pattern in the
\* text, none raises, the cache never holds another value for the field,
\* and an access that reads the cache after its write finds the field there.
C16_BenignRace ==
    LET regex == Table(entry.regex)
    IN  /\ \A a \in DOMAIN entry.dict :
             a \in DOMAIN regex /\ entry.dict[a] = FindAll(regex[a], entry.text)
        /\ \A t \in Callers :
             LET c == calls[t]
             IN  /\ (c.pc = "done" /\ c.attr \in DOMAIN regex)
                      => /\ c.kind = "list"
                         /\ c.list = FindAll(regex[c.attr], entry.text)
                         /\ c.attr \in DOMAIN entry.dict
                         /\ entry.dict[c.attr] = c.list
                 /\ (c.pc = "done" /\ c.kind = "KeyError") => c.attr \notin DOMAIN regex
                 /\ c.pc = "getattr" => c.attr \in DOMAIN entry.dict
                 /\ c.pc \in {"setattr", "getattr"}
                      => c.value = FindAll(regex[c.attr], entry.text)

\* both threads found the cache empty, both scanned the text for the same
\* field, both wrote, and both returned the same list
C16_Witness ==
    /\ calls["A"].pc = "done" /\ calls["B"].pc = "done"
    /\ calls["A"].attr = "name_servers" /\ calls["B"].attr = "name_servers"
    /\ "name_servers" \in DOMAIN nfindall /\ nfindall["name_servers"] = 2
    /\ calls["A"].value # <<>> /\ calls["B"].value = calls["A"].value
    /\ calls["A"].list = calls["B"].list
    /\ calls["A"].list = <<"ns.a.cz ", "ns.b.cz ">>

\* C17. Every object load has returned has a text that is not the global
\* sentinel and does not trigger the rule of the suffix of its domain; when
\* load raises there is no object, not even one with only its domain, text
\* or table set.
C17_NoRecordForNotFound ==
    result.op = "load"
      => /\ result.kind \in {"entry", "PywhoisError"}
         /\ result.kind = "entry" <=> entry # NoEntry
         /\ entry # NoEntry
              => /\ entry.domain = result.arg /\ entry.text = result.text
                 /\ entry.dict = EmptyDict
                 /\ ~TrimsTo(entry.text, GlobalSentinel)
                 /\ \A i \in 1..Len(SuffixTable) :
                      EndsWith(entry.domain, SuffixTable[i].suffix)
                        => /\ entry.cls = SuffixTable[i].cls
                           /\ \A sentinel \in RuleOf(SuffixTable[i].suffix).sentinels :
                                ~Applies(RuleOf(SuffixTable[i].suffix).kind,
                                         sentinel, entry.text)
         /\ result.kind = "PywhoisError"
              => /\ entry = NoEntry
                 /\ entry.domain = "" /\ entry.text = "" /\ entry.regex = ""
                 /\ result.str = result.text

\* a failed load of a .org domain: the padded sentinel, and no object
C17_Witness ==
    /\ result.op = "load"
    /\ result.kind = "PywhoisError"
    /\ result.arg = "example.org"
    /\ result.text = " NOT FOUND\n"
    /\ entry = NoEntry

\* what C18 says of a state: the cache of a fresh object is empty; the names
\* cached are names of the table, and exactly those an access has returned a
\* list for; each is cached with all matches of its pattern in the text; the
\* name of a get that raised KeyError is not cached
CacheState ==
    entry # NoEntry
      => LET regex == Table(entry.regex)
         IN  /\ result.op = "load" => entry.dict = EmptyDict
             /\ DOMAIN entry.dict \subseteq DOMAIN regex
             /\ DOMAIN entry.dict = DOMAIN first
             /\ \A a \in DOMAIN entry.dict : entry.dict[a] = FindAll(regex[a], entry.text)
             /\ (result.op = "get" /\ result.kind = "list")
                  => result.arg \in DOMAIN entry.dict
             /\ (result.op = "get" /\ result.kind = "KeyError")
                  => result.arg \notin DOMAIN entry.dict

\* what C18 says of a step: a get that raises KeyError, a get of an
\* attribute the object has and attrs() leave the cache as it was; a get
\* that returns a list adds at most its own name
CacheStep ==
    /\ (result'.op = "get" /\ result'.kind # "list") => entry' = entry
    /\ result'.op = "attrs" => entry' = entry
    /\ (result'.op = "get" /\ result'.kind = "list")
         => DOMAIN entry'.dict = DOMAIN entry.dict \cup {result'.arg}

\* C18. Cache invariant: a fresh record has an empty cache; after any gets,
\* attrs() and failed gets the cached names are names of the table, exactly
\* those a get has succeeded on, each with all matches of its pattern; a
\* get that raises KeyError leaves the cache unchanged.
C18_CacheInvariant == []CacheState /\ [][CacheStep]_vars

\* a get that raised KeyError on a record with one field cached
C18_Witness ==
    /\ result.op = "get"
    /\ result.kind = "KeyError"
    /\ result.arg = "nonexistent_field"
    /\ DOMAIN entry.dict = {"emails"}
    /\ DOMAIN first = {"emails"}
    /\ entry.dict["emails"] # <<>>

\* the object after a step is the object before it, but for names added to
\* its cache
SameButCache(before, after) ==
    /\ after.cls = before.cls
    /\ after.domain = before.domain
    /\ after.text = before.text
    /\ after.regex = before.regex
    /\ \A a \in DOMAIN before.dict :
         a \in DOMAIN after.dict /\ after.dict[a] = before.dict[a]

\* what C19 says of a step: an access to one record changes at most the
\* cache entry of its name in that record, and nothing of the other
\* record; attrs() changes nothing; a load after any accesses gives what a
\* load gives at the start, and changes nothing of the record loaded before
FrameStep ==
    /\ entry # NoEntry => SameButCache(entry, entry')
    /\ peer # NoEntry => SameButCache(peer, peer')
    /\ result'.op = "get"
         => /\ peer' = peer
            /\ DOMAIN entry'.dict \subseteq DOMAIN entry.dict \cup {result'.arg}
    /\ result'.op = "peer_get"
         => /\ entry' = entry
            /\ DOMAIN peer'.dict \subseteq DOMAIN peer.dict \cup {result'.arg}
    /\ result'.op = "attrs" => entry' = entry /\ peer' = peer
    /\ result'.op = "peer_load"
         => /\ entry' = entry
            /\ peer'.dict = EmptyDict
            /\ peer'.domain = result'.arg /\ peer'.text = result'.text
            /\ \A i \in 1..Len(SuffixTable) :
                 EndsWith(result'.arg, SuffixTable[i].suffix)
                   => /\ peer'.cls = SuffixTable[i].cls
                      /\ peer'.regex = SuffixTable[i].regex

\* what C19 says of a state: an access to a field of one record returns all
\* matches of the field's pattern in the text of that record, whatever the
\* other record, bound to the same table, has cached
FrameState ==
    /\ (result.op = "get" /\ result.arg \in DOMAIN Table(entry.regex))
         => /\ result.kind = "list"
            /\ result.list = FindAll(Table(entry.regex)[result.arg], entry.text)
    /\ (result.op = "peer_get" /\ result.arg \in DOMAIN Table(peer.regex))
         => /\ result.kind = "list"
            /\ result.list = FindAll(Table(peer.regex)[result.arg], peer.text)
    /\ (result.op = "attrs" /\ peer # NoEntry) => result.list = attrs(peer)

\* C19. Frame: a get changes only the cache entry of its field and leaves
\* the domain, the text, the table and the other cache entries of the
\* record as they were; attrs() changes nothing; load, get and attrs() on
\* one record change nothing of another record bound to the same table,
\* and do not change what a later load or a get on the other record gives.
C19_Frame == []FrameState /\ [][FrameStep]_vars

\* a field read from the second record after the first record, bound to the
\* same table, has cached another list for the same field
C19_Witness ==
    /\ result.op = "peer_get"
    /\ result.arg = "domain_name"
    /\ result.kind = "list"
    /\ peer.regex = entry.regex
    /\ peer.text # entry.text
    /\ "domain_name" \in DOMAIN entry.dict
    /\ entry.dict["domain_name"] # result.list
    /\ entry.dict["domain_name"] # <<>> /\ result.list # <<>>

\* the three pieces of s between its two occurrences of the character c, or
\* no pieces when c occurs more or less often
Pieces(s, c) ==
    LET cuts == {k \in 1..Len(s) : CharAt(s, k) = c}
    IN  IF Cardinality(cuts) # 2 THEN <<>>
        ELSE LET p == Least(cuts)
                 q == Least(cuts \ {p})
             IN  <<SubSeq(s, 1, p - 1), SubSeq(s, p + 1, q - 1), SubSeq(s, q + 1, Len(s))>>

\* a number written with one or two digits, a year written with four
ShortNumber(s) == Len(s) \in 1..2 /\ AllDigits(s)
FourDigits(s) == Len(s) = 4 /\ AllDigits(s)

\* cast_date has returned this day
CastTo(year, month, day) ==
    /\ date_result.kind = "struct_time"
    /\ date_result.t.tm_year = year
    /\ date_result.t.tm_mon = month
    /\ date_result.t.tm_mday = day

SuffixesOf(d) ==
    {i \in 1..Len(SuffixTable) : EndsWith(d, SuffixTable[i].suffix)}

\* the suffixes the domain would end with if it were written in lower case,
\* without its final dot, or with a dot before it
NearSuffixesOf(d) ==
    {i \in 1..Len(SuffixTable) :
       \/ EndsWith(Lower(d), SuffixTable[i].suffix)
       \/ Len(d) > 0 /\ CharAt(d, Len(d)) = "."
                     /\ EndsWith(SubSeq(d, 1, Len(d) - 1), SuffixTable[i].suffix)
       \/ "." \o d = SuffixTable[i].suffix}

\* C21. The suffix test compares the last 3, 4 or 5 characters of the domain
\* with the suffix, dot and letter case included: a domain gets the class of
\* a suffix exactly when it ends with the suffix as written; a domain in
\* upper case, with a final dot or shorter than the suffix gets the base
\* class with the generic table, and load returns an object for it unless
\* the text is the global sentinel, also when the text holds the sentinel of
\* the class its suffix would select otherwise.
C21_ExactSuffix ==
    result.op = "load"
      => LET d == result.arg
             raises == TrimsTo(result.text, GlobalSentinel)
         IN  /\ \A i \in 1..Len(SuffixTable) :
                  /\ Len(SuffixTable[i].suffix) \in 3..5
                  /\ CharAt(SuffixTable[i].suffix, 1) = "."
                  /\ Lower(SuffixTable[i].suffix) = SuffixTable[i].suffix
             /\ Cardinality(SuffixesOf(d)) <= 1
             /\ result.kind = "entry"
                  => /\ entry.cls = "WhoisEntry" <=> SuffixesOf(d) = {}
                     /\ \A i \in SuffixesOf(d) : entry.cls = SuffixTable[i].cls
             /\ SuffixesOf(d) = {}
                  => /\ result.kind = "PywhoisError" <=> raises
                     /\ ~raises
                          => /\ entry.cls = "WhoisEntry"
                             /\ entry.regex = "WhoisEntry_regex"
                             /\ entry.domain = d /\ entry.text = result.text
             /\ (Len(d) = 0 \/ CharAt(d, Len(d)) \notin LowerChars) => SuffixesOf(d) = {}
             /\ d \in {"EXAMPLE.COM", "example.com.", "com", "example.Com"}
                  => SuffixesOf(d) = {} /\ NearSuffixesOf(d) # {}
             /\ (d = "EXAMPLE.com" /\ result.kind = "entry") => entry.cls = "WhoisCom"

\* EXAMPLE.COM with the text that makes load raise for example.com: an
\* object of the base class
C21_Witness ==
    /\ result.op = "load"
    /\ result.arg = "EXAMPLE.COM"
    /\ result.text = "No match for \"EXAMPLE.COM\""
    /\ load("example.com", result.text).raised
    /\ SuffixesOf(result.arg) = {} /\ NearSuffixesOf(result.arg) # {}
    /\ result.kind = "entry"
    /\ entry.cls = "WhoisEntry"
    /\ entry.regex = "WhoisEntry_regex"

====
